---- MODULE Spec2Model ----
(***************************************************************************)
(* State-machine model of the on-chain interaction engine of the USDC      *)
(* agent wallet: the transfer pipeline (scripts/usdc-transfer.py), the     *)
(* incoming-payment monitor (scripts/usdc-monitor.py) and the history      *)
(* reconstruction (scripts/usdc-history.py).                               *)
(*                                                                         *)
(* The contact stores (scripts/phonebook.py, scripts/contacts-manager.py)  *)
(* that turn a name into an address are modelled beside them.              *)
(*                                                                         *)
(* Five specifications share the module, one per program:                  *)
(*   SpecTransfer  one invocation of transfer_usdc                         *)
(*   SpecMonitor   one run of monitor_incoming against a growing chain     *)
(*   SpecHistory   one invocation of get_history against a growing chain   *)
(*   SpecPhoneBook        calls on a PhoneBook                             *)
(*   SpecContactsManager  calls on a ContactsManager                       *)
(* The variables of the programs a specification does not run keep their   *)
(* initial values.                                                         *)
(***************************************************************************)
EXTENDS Integers, Sequences, FiniteSets, TLC

VARIABLES
    \* ---- the chain as seen through the RPC endpoint
    head,          \* current block number (w3.eth.block_number)
    chain,         \* Transfer logs of the token contract, in emission order
    \* ---- transfer_usdc
    tpc,           \* position inside transfer_usdc
    tin,           \* arguments of the call
    tl,            \* local variables of transfer_usdc
    sent,          \* raw transactions handed to send_raw_transaction, in order
    ops,           \* chain/key operations performed so far by the call
    result,        \* the dict transfer_usdc returned
    exit_code,     \* exit status of main() of usdc-transfer.py
    message,       \* what main() of usdc-transfer.py printed
    \* ---- two runs of transfer_usdc at once, for one sender
    pipelines,          \* position and locals of each run
    transaction_count,  \* transactions of the sender included in blocks so far
    txpool,             \* transactions of the sender the node holds as pending
    \* ---- monitor_incoming
    mpc,           \* position inside monitor_incoming
    margs,         \* arguments of the call
    last_block,
    current_block,
    seen_txs,
    logs,          \* the batch returned by get_logs in this tick
    li,            \* index in logs of the log being processed
    printed,       \* notifications written to the console, in order
    outfile,       \* lines appended to the output file, in order
    queries,       \* the get_logs calls answered so far: range, answer, batch completed
    \* ---- get_history_via_rpc
    hpc,           \* position inside get_history_via_rpc
    hin,           \* arguments of the call
    hl,            \* local variables of get_history_via_rpc
    hresult,       \* the dict get_history returned
    hcalls,        \* the block lookups get_history has issued, in order
    \* ---- the contact stores (phonebook.py, contacts-manager.py)
    phonebook_file,   \* content of the phone book's JSON file, or None when absent
    phonebook,        \* PhoneBook.contacts of each store instance, None before construction
    contacts_file,    \* content of the contacts manager's JSON file, or None when absent
    contacts,         \* ContactsManager.contacts, None before construction
    creturn,          \* the last store call: its arguments and what it returned or raised
    \* ---- identity codes (agent-qr-generate.py, agent-qr-read.py)
    qr                \* the last call of generate_qr and the URI in its image, or None

chainVars == <<head, chain>>
tvars == <<tpc, tin, tl, sent, ops, result, exit_code, message>>
pvars == <<pipelines, transaction_count, txpool>>
mvars == <<mpc, margs, last_block, current_block, seen_txs, logs, li, printed, outfile, queries>>
hvars == <<hpc, hin, hl, hresult, hcalls>>
cvars == <<phonebook_file, phonebook, contacts_file, contacts, creturn, qr>>
vars == <<head, chain, tpc, tin, tl, sent, ops, result, exit_code, message,
          pipelines, transaction_count, txpool,
          mpc, margs, last_block, current_block, seen_txs, logs, li, printed, outfile, queries,
          hpc, hin, hl, hresult, hcalls,
          phonebook_file, phonebook, contacts_file, contacts, creturn, qr>>

\* Python's None. A value that may be None is drawn as Some(v) or None.
None == [none |-> TRUE]
Some(v) == [some |-> v]

\* A frame of local variables maps the names bound so far to their values
Bind(frame, name, value) ==
    [k \in DOMAIN frame \cup {name} |-> IF k = name THEN value ELSE frame[k]]
Bound(frame, name) == name \in DOMAIN frame

(***************************************************************************)
(* Text. A Python str is a sequence of one-character strings.              *)
(***************************************************************************)
LowerOf == [c \in {"A", "B", "C", "D", "E", "F", "O"} |->
              CASE c = "A" -> "a" [] c = "B" -> "b" [] c = "C" -> "c"
                [] c = "D" -> "d" [] c = "E" -> "e" [] c = "F" -> "f"
                [] c = "O" -> "o"]
UpperOf == [c \in {"a", "b", "c", "d", "e", "f", "o"} |->
              CASE c = "a" -> "A" [] c = "b" -> "B" [] c = "c" -> "C"
                [] c = "d" -> "D" [] c = "e" -> "E" [] c = "f" -> "F"
                [] c = "o" -> "O"]

LowerChar(c) == IF c \in DOMAIN LowerOf THEN LowerOf[c] ELSE c
UpperChar(c) == IF c \in DOMAIN UpperOf THEN UpperOf[c] ELSE c

\* str.lower()
Lower(s) == [i \in 1..Len(s) |-> LowerChar(s[i])]

\* needle in hay
Contains(hay, needle) ==
    \E k \in 0..(Len(hay) - Len(needle)) :
        \A i \in 1..Len(needle) : hay[k + i] = needle[i]

\* s.endswith(suffix)
EndsWith(s, suffix) ==
    /\ Len(s) >= Len(suffix)
    /\ \A i \in 1..Len(suffix) : s[Len(s) - Len(suffix) + i] = suffix[i]

(***************************************************************************)
(* Addresses. An address is AddrHexLen hex digits (40 in the program), in  *)
(* text with or without the 0x prefix.                                     *)
(***************************************************************************)
AddrHexLen == 2

HexValue == [c \in {"0", "1", "2", "3", "4", "5", "6", "7", "8", "9",
                    "a", "b", "c", "d", "e", "f"} |->
              CASE c = "0" -> 0 [] c = "1" -> 1 [] c = "2" -> 2 [] c = "3" -> 3
                [] c = "4" -> 4 [] c = "5" -> 5 [] c = "6" -> 6 [] c = "7" -> 7
                [] c = "8" -> 8 [] c = "9" -> 9 [] c = "a" -> 10 [] c = "b" -> 11
                [] c = "c" -> 12 [] c = "d" -> 13 [] c = "e" -> 14 [] c = "f" -> 15]

IsHexChar(c) == LowerChar(c) \in DOMAIN HexValue
IsLetter(c) == c \in DOMAIN LowerOf \/ c \in DOMAIN UpperOf

HasPrefix0x(s) == Len(s) >= 2 /\ s[1] = "0" /\ s[2] \in {"x", "X"}
Remove0x(s) == IF HasPrefix0x(s) THEN SubSeq(s, 3, Len(s)) ELSE s

\* eth_utils.is_hex_address
IsHexAddress(s) ==
    /\ Len(Remove0x(s)) = AddrHexLen
    /\ \A i \in 1..AddrHexLen : IsHexChar(Remove0x(s)[i])

RECURSIVE DigitSum(_)
DigitSum(s) == IF s = <<>> THEN 0 ELSE HexValue[Head(s)] + DigitSum(Tail(s))

\* The nibble of keccak(lowercase hex digits) that decides the case of digit i
\* (EIP-55: upper case iff the nibble is >= 8). The hash is a fixed function
\* of the lowercase digits; here a position-dependent digest of them.
HashNibble(lowhex, i) == (7 * DigitSum(lowhex) + 5 * i + 3 * HexValue[lowhex[i]]) % 16

\* Web3.to_checksum_address on a hex address
ToChecksum(s) ==
    LET low == Lower(Remove0x(s))
    IN <<"0", "x">> \o [i \in 1..AddrHexLen |->
            IF HashNibble(low, i) >= 8 THEN UpperChar(low[i]) ELSE low[i]]

\* eth_utils.is_address: a hex address, whose checksum must be right when it
\* is written in mixed case
IsAddress(s) ==
    /\ IsHexAddress(s)
    /\ LET u == Remove0x(s)
           islower == (\E i \in 1..Len(u) : IsLetter(u[i]))
                        /\ (\A i \in 1..Len(u) : u[i] = LowerChar(u[i]))
           isupper == (\E i \in 1..Len(u) : IsLetter(u[i]))
                        /\ (\A i \in 1..Len(u) : u[i] = UpperChar(u[i]))
           isnumeric == \A i \in 1..Len(u) : ~IsLetter(u[i])
       IN (~islower /\ ~isupper /\ ~isnumeric) => (<<"0", "x">> \o u = ToChecksum(s))

\* An address text: the given digits padded with 1s to AddrHexLen digits
MkAddr(prefix, digits) ==
    prefix \o digits \o [i \in 1..(AddrHexLen - Len(digits)) |-> "1"]

AddrA == ToChecksum(MkAddr(<<"0", "x">>, <<"a", "b">>))
AddrB == ToChecksum(MkAddr(<<"0", "x">>, <<"b", "c">>))

(***************************************************************************)
(* Recipient resolution. usdc-transfer.py calls resolve_name of the        *)
(* contacts module and reads success, error, address, name and source of   *)
(* its answer; the rule chain is the one of the design (exact contact      *)
(* name, raw address, name-service handle, unique fuzzy match).            *)
(***************************************************************************)
Bob == <<"B", "o", "b">>
Bobby == <<"B", "o", "b", "b", "y">>
EthSuffix == <<".", "e", "t", "h">>

\* The contact book the transfer runs against
TransferBook == [n \in {Bob, Bobby} |-> IF n = Bob THEN AddrB ELSE AddrA]

\* A resolver whose last rule settles for any contact whose name contains the token
resolve_name_AnyMatch(token, book, ens) ==
    IF token \in DOMAIN book
    THEN [success |-> TRUE, address |-> book[token], name |-> token, source |-> "contacts"]
    ELSE IF IsAddress(token)
    THEN [success |-> TRUE, address |-> ToChecksum(token), name |-> token, source |-> "address"]
    ELSE IF EndsWith(Lower(token), EthSuffix)
    THEN IF ens = None
         THEN [success |-> FALSE, error |-> "NameServiceFailure"]
         ELSE [success |-> TRUE, address |-> ens.some, name |-> token, source |-> "ens"]
    ELSE LET matches == {n \in DOMAIN book : Contains(Lower(n), Lower(token))}
         IN IF matches # {}
            THEN LET n == CHOOSE m \in matches : TRUE
                 IN [success |-> TRUE, address |-> book[n], name |-> n, source |-> "fuzzy"]
            ELSE [success |-> FALSE, error |-> "UnknownRecipient"]

\* ens: the answer of the name-service collaborator, Some(address) or None
resolve_name(token, book, ens) ==
    IF token \in DOMAIN book
    THEN [success |-> TRUE, address |-> book[token], name |-> token, source |-> "contacts"]
    ELSE IF IsAddress(token)
    THEN [success |-> TRUE, address |-> ToChecksum(token), name |-> token, source |-> "address"]
    ELSE IF EndsWith(Lower(token), EthSuffix)
    THEN IF ens = None
         THEN [success |-> FALSE, error |-> "NameServiceFailure"]
         ELSE [success |-> TRUE, address |-> ens.some, name |-> token, source |-> "ens"]
    ELSE LET matches == {n \in DOMAIN book : Contains(Lower(n), Lower(token))}
         IN IF Cardinality(matches) = 1
            THEN LET n == CHOOSE m \in matches : TRUE
                 IN [success |-> TRUE, address |-> book[n], name |-> n, source |-> "fuzzy"]
            ELSE IF matches = {}
            THEN [success |-> FALSE, error |-> "UnknownRecipient"]
            ELSE [success |-> FALSE, error |-> "AmbiguousRecipient"]

\* resolve_recipient: (address, display name or None), or the ValueError raised
resolve_recipient(recipient, book, ens) ==
    LET r == resolve_name(recipient, book, ens)
    IN IF ~r.success
       THEN [raised |-> TRUE, error |-> r.error]
       ELSE [raised |-> FALSE, address |-> r.address,
             display |-> IF r.source \in {"contacts", "ens", "fuzzy"} THEN r.name ELSE None]

(***************************************************************************)
(* transfer_usdc                                                           *)
(***************************************************************************)
NETWORKS == {"base-sepolia", "eth-sepolia"}

RECURSIVE Pow10(_)
Pow10(n) == IF n = 0 THEN 1 ELSE 10 * Pow10(n - 1)

RECURSIVE Pow2(_)
Pow2(n) == IF n = 0 THEN 1 ELSE 2 * Pow2(n - 1)

(* The amount is a float: --amount is parsed with type=float (line 206) and  *)
(* transfer_usdc takes amount: float. A decimal text is the record [m, e],  *)
(* standing for m * 10^-e; a float is the record [f, x], standing for       *)
(* f * 2^x with f of FloatMantissaBits bits (53 in the program, so that the *)
(* texts of up to 15 digits survive the round trip there, of up to 2 here). *)
FloatMantissaBits == 8
FloatExponents == (0 - 14)..3

\* n / d rounded to the nearest integer, a half to the even neighbour
RoundHalfEven(n, d) ==
    LET q == n \div d
        r == n % d
    IN IF 2 * r < d THEN q
       ELSE IF 2 * r > d THEN q + 1
       ELSE IF q % 2 = 0 THEN q ELSE q + 1

\* the decimal a divided by 2^x, as the fraction n / d
Over2(a, x) ==
    IF x >= 0 THEN [n |-> a.m, d |-> Pow10(a.e) * Pow2(x)]
    ELSE [n |-> a.m * Pow2(0 - x), d |-> Pow10(a.e)]

\* float(text): the float nearest to the decimal
FloatOf(a) ==
    LET x == CHOOSE k \in FloatExponents :
                 /\ Pow2(FloatMantissaBits - 1) * Over2(a, k).d <= Over2(a, k).n
                 /\ Over2(a, k).n < Pow2(FloatMantissaBits) * Over2(a, k).d
        f == RoundHalfEven(Over2(a, x).n, Over2(a, x).d)
    IN IF f = Pow2(FloatMantissaBits)
       THEN [f |-> Pow2(FloatMantissaBits - 1), x |-> x + 1]
       ELSE [f |-> f, x |-> x]

\* the number of digits of m between its first and its last non-zero digit
RECURSIVE SigDigits(_)
SigDigits(m) ==
    IF m % 10 = 0 THEN SigDigits(m \div 10)
    ELSE IF m < 10 THEN 1 ELSE 1 + SigDigits(m \div 10)

\* The decimal texts with at most one fractional digit that lie within one
\* step of the float (the texts drawn here have no more digits than that),
\* each value written once
ReprCandidates(fl) ==
    LET lo == IF fl.x >= 0 THEN 10 * (fl.f - 1) * Pow2(fl.x)
              ELSE (10 * (fl.f - 1)) \div Pow2(0 - fl.x)
        hi == IF fl.x >= 0 THEN 10 * (fl.f + 1) * Pow2(fl.x)
              ELSE ((10 * (fl.f + 1)) \div Pow2(0 - fl.x)) + 1
    IN {IF t % 10 = 0 THEN [m |-> t \div 10, e |-> 0] ELSE [m |-> t, e |-> 1] :
           t \in (IF lo < 1 THEN 1 ELSE lo)..hi}

\* |d - fl|, in units of 10^-1 * 2^-14
ReprError(d, fl) ==
    LET dv == d.m * Pow10(1 - d.e) * Pow2(14)
        fv == fl.f * 10 * Pow2(fl.x + 14)
    IN IF dv >= fv THEN dv - fv ELSE fv - dv

\* the least number of digits a text of the set has
MinSigDigits(texts) ==
    CHOOSE k \in 1..10 : /\ \E d \in texts : SigDigits(d.m) = k
                         /\ \A d \in texts : SigDigits(d.m) >= k

\* str(amount): the shortest decimal text that reads back as the same float,
\* the nearest to it when there are several
StrOfFloat(fl) ==
    LET back == {d \in ReprCandidates(fl) : FloatOf(d) = fl}
        short == {d \in back : SigDigits(d.m) = MinSigDigits(back)}
    IN CHOOSE d \in short : \A o \in short : ReprError(d, fl) <= ReprError(o, fl)

\* int(Decimal(text) * Decimal(10 ** decimals)): int() drops the fraction
AmountWei(amount, decimals) ==
    IF amount.e <= decimals
    THEN amount.m * Pow10(decimals - amount.e)
    ELSE amount.m \div Pow10(amount.e - decimals)

\* int(gas_estimate * 1.2)
GasLimit(gas_estimate) == (gas_estimate * 12) \div 10

\* w3.to_wei(gas_price_gwei, 'gwei')
ToWeiGwei(g) == g * 1000000000

\* ---- inputs and chain answers the model draws from
MaxAmount == 2
MaxNonce == 1
MaxGas == 6
Recipients == {Bob, <<"b", "O", "B">>, <<"b", "y">>, <<"o", "b">>, <<"z">>,
               <<"a", ".", "e", "t", "h">>,
               MkAddr(<<"0", "x">>, <<"a", "b">>), MkAddr(<<>>, <<"A", "B">>)}
\* amounts as the caller writes them: small ones, the 20.0 of the end-to-end
\* scenario, and one with more digits than a float holds
Twenty == [m |-> 200, e |-> 1]
LargeAmount == [m |-> Pow2(FloatMantissaBits) + 1, e |-> 0]
Amounts == {[m |-> m, e |-> e] : m \in 1..MaxAmount, e \in {0, 1}} \cup {Twenty, LargeAmount}
DecimalsSet == {0, 6}
Balances(amount_wei) == {0, amount_wei - 1, amount_wei, amount_wei + 1} \cap Nat
EthBalances == {0, 1}
GasEstimates == {MaxGas - 1, MaxGas}
GasPrices == {1}
GweiOverrides == {None, Some(0), Some(2)}
TxHashOf(raw) == <<"hash", raw>>

TInit ==
    /\ tpc = "idle"
    /\ tin = None
    /\ tl = <<>>
    /\ sent = <<>>
    /\ ops = {}
    /\ result = None
    /\ exit_code = None
    /\ message = None

\* except Exception as e: return {'success': False, 'error': str(e), 'network': network}
Raise(e) ==
    /\ result' = [success |-> FALSE, error |-> e, network |-> tin.network]
    /\ tpc' = "returned"

\* the caller invokes transfer_usdc(to_raw, amount, network, key_file, private_key,
\* gas_price_gwei); amount is the float read from the text of --amount (line 206)
CallTransfer ==
    /\ tpc = "idle"
    /\ \E to_raw \in Recipients, amount_text \in Amounts,
          network \in NETWORKS \cup {"mainnet"},
          private_key \in {None, Some(<<"k">>)}, gas_price_gwei \in GweiOverrides,
          json \in BOOLEAN :
            tin' = [to_raw |-> to_raw, amount_text |-> amount_text,
                    amount |-> FloatOf(amount_text), network |-> network,
                    private_key |-> private_key, gas_price_gwei |-> gas_price_gwei,
                    json |-> json]
    /\ tpc' = "resolve"
    /\ UNCHANGED <<tl, sent, ops, result, exit_code, message>>
    /\ UNCHANGED <<chainVars, pvars, mvars, hvars, cvars>>

\* A variant that opens the connection before it resolves the recipient
Resolving_AfterConnect ==
    /\ tpc = "resolve"
    /\ ops' = ops \cup {"is_connected"}
    /\ \/ /\ tin.network \notin NETWORKS
          /\ Raise("Unknown network")
          /\ UNCHANGED tl
       \/ /\ tin.network \in NETWORKS
          /\ \E ens \in {None, Some(AddrA)} :
               LET r == resolve_recipient(tin.to_raw, TransferBook, ens)
               IN IF r.raised
                  THEN Raise(r.error) /\ UNCHANGED tl
                  ELSE /\ tl' = Bind(Bind(tl, "to_address", r.address),
                                  "display_name", r.display)
                       /\ tpc' = "connect"
                       /\ UNCHANGED result
    /\ UNCHANGED <<tin, sent, exit_code, message>>
    /\ UNCHANGED <<chainVars, pvars, mvars, hvars, cvars>>

\* lines 104-108: network check, then the recipient is resolved
Resolving ==
    /\ tpc = "resolve"
    /\ \/ /\ tin.network \notin NETWORKS
          /\ Raise("Unknown network")
          /\ UNCHANGED tl
       \/ /\ tin.network \in NETWORKS
          /\ \E ens \in {None, Some(AddrA)} :
               LET r == resolve_recipient(tin.to_raw, TransferBook, ens)
               IN IF r.raised
                  THEN Raise(r.error) /\ UNCHANGED tl
                  ELSE /\ tl' = Bind(Bind(tl, "to_address", r.address),
                                  "display_name", r.display)
                       /\ tpc' = "connect"
                       /\ UNCHANGED result
    /\ UNCHANGED <<tin, sent, ops, exit_code, message>>
    /\ UNCHANGED <<chainVars, pvars, mvars, hvars, cvars>>

\* lines 110-114: the RPC connection
Connecting ==
    /\ tpc = "connect"
    /\ ops' = ops \cup {"is_connected"}
    /\ \/ Raise("Failed to connect")
       \/ tpc' = "load_wallet" /\ UNCHANGED result
    /\ UNCHANGED <<tin, tl, sent, exit_code, message>>
    /\ UNCHANGED <<chainVars, pvars, mvars, hvars, cvars>>

\* lines 116-126: the wallet key, the checksummed destination, the contract
LoadWallet ==
    /\ tpc = "load_wallet"
    /\ IF tin.private_key = None
       THEN Raise("Must provide either --key-file or --private-key")
            /\ UNCHANGED <<tl, ops>>
       ELSE /\ tl' = Bind(Bind(tl, "from_address", AddrA),
                       "to_address", ToChecksum(tl.to_address))
            /\ ops' = ops \cup {"load_wallet"}
            /\ tpc' = "decimals"
            /\ UNCHANGED result
    /\ UNCHANGED <<tin, sent, exit_code, message>>
    /\ UNCHANGED <<chainVars, pvars, mvars, hvars, cvars>>

\* lines 128-130: decimals() and the amount in minor units
Quoting ==
    /\ tpc = "decimals"
    /\ ops' = ops \cup {"decimals"}
    /\ \/ Raise("RpcError") /\ UNCHANGED tl
       \/ /\ \E d \in DecimalsSet :
               tl' = Bind(Bind(tl, "decimals", d),
                          "amount_wei", AmountWei(StrOfFloat(tin.amount), d))
          /\ tpc' = "balance"
          /\ UNCHANGED result
    /\ UNCHANGED <<tin, sent, exit_code, message>>
    /\ UNCHANGED <<chainVars, pvars, mvars, hvars, cvars>>

\* A variant of the balance check that also rejects an exactly sufficient balance
InsufficientTokenBalance_OffByOne(balance_wei, amount_wei) == balance_wei <= amount_wei

\* line 134: balance_wei < amount_wei
InsufficientTokenBalance(balance_wei, amount_wei) == balance_wei < amount_wei

\* lines 132-136: the sender's token balance
CheckBalance ==
    /\ tpc = "balance"
    /\ ops' = ops \cup {"balanceOf"}
    /\ \/ Raise("RpcError") /\ UNCHANGED tl
       \/ \E b \in Balances(tl.amount_wei) :
            /\ tl' = Bind(tl, "balance_wei", b)
            /\ IF InsufficientTokenBalance(b, tl.amount_wei)
               THEN Raise("Insufficient USDC balance")
               ELSE tpc' = "eth_balance" /\ UNCHANGED result
    /\ UNCHANGED <<tin, sent, exit_code, message>>
    /\ UNCHANGED <<chainVars, pvars, mvars, hvars, cvars>>

\* A variant of the native-balance check that lets an empty account through
InsufficientGasFunds_Never(eth_balance) == eth_balance < 0

\* line 140: eth_balance == 0
InsufficientGasFunds(eth_balance) == eth_balance = 0

\* lines 138-141: the sender's native balance
CheckEthBalance ==
    /\ tpc = "eth_balance"
    /\ ops' = ops \cup {"get_balance"}
    /\ \/ Raise("RpcError") /\ UNCHANGED tl
       \/ \E b \in EthBalances :
            /\ tl' = Bind(tl, "eth_balance", b)
            /\ IF InsufficientGasFunds(b)
               THEN Raise("Insufficient ETH for gas fees")
               ELSE tpc' = "nonce" /\ UNCHANGED result
    /\ UNCHANGED <<tin, sent, exit_code, message>>
    /\ UNCHANGED <<chainVars, pvars, mvars, hvars, cvars>>

\* line 144: the nonce
FetchNonce ==
    /\ tpc = "nonce"
    /\ ops' = ops \cup {"get_transaction_count"}
    /\ \/ Raise("RpcError") /\ UNCHANGED tl
       \/ /\ \E n \in 0..MaxNonce : tl' = Bind(tl, "nonce", n)
          /\ tpc' = "estimate_gas"
          /\ UNCHANGED result
    /\ UNCHANGED <<tin, sent, exit_code, message>>
    /\ UNCHANGED <<chainVars, pvars, mvars, hvars, cvars>>

\* lines 146-149: estimate_gas of the transfer call; a call that would revert raises
EstimateGas ==
    /\ tpc = "estimate_gas"
    /\ ops' = ops \cup {"estimate_gas"}
    /\ \/ Raise("execution reverted") /\ UNCHANGED tl
       \/ /\ \E g \in GasEstimates : tl' = Bind(tl, "gas_estimate", g)
          /\ tpc' = "gas_price"
          /\ UNCHANGED result
    /\ UNCHANGED <<tin, sent, exit_code, message>>
    /\ UNCHANGED <<chainVars, pvars, mvars, hvars, cvars>>

\* `if gas_price_gwei:` a number is true unless it is zero, None is false
Truthy(opt) == opt # None /\ opt.some # 0

\* lines 151-155: the override, or the live quote
ResolveGasPrice ==
    /\ tpc = "gas_price"
    /\ IF Truthy(tin.gas_price_gwei)
       THEN /\ tl' = Bind(tl, "gas_price", ToWeiGwei(tin.gas_price_gwei.some))
            /\ tpc' = "build"
            /\ UNCHANGED <<ops, result>>
       ELSE /\ ops' = ops \cup {"gas_price"}
            /\ \/ Raise("RpcError") /\ UNCHANGED tl
               \/ /\ \E g \in GasPrices : tl' = Bind(tl, "gas_price", g)
                  /\ tpc' = "build"
                  /\ UNCHANGED result
    /\ UNCHANGED <<tin, sent, exit_code, message>>
    /\ UNCHANGED <<chainVars, pvars, mvars, hvars, cvars>>


\* A build step that addresses the transfer to the recipient as it was typed
Building_RecipientAsTyped ==
    /\ tpc = "build"
    /\ tl' = Bind(tl, "transaction",
                [to |-> tin.to_raw, value |-> tl.amount_wei,
                 chainId |-> tin.network, gas |-> GasLimit(tl.gas_estimate),
                 gasPrice |-> tl.gas_price, nonce |-> tl.nonce])
    /\ tpc' = "sign"
    /\ UNCHANGED <<tin, sent, ops, result, exit_code, message>>
    /\ UNCHANGED <<chainVars, pvars, mvars, hvars, cvars>>

\* lines 157-165: build_transaction
Building ==
    /\ tpc = "build"
    /\ tl' = Bind(tl, "transaction",
                [to |-> tl.to_address, value |-> tl.amount_wei,
                 chainId |-> tin.network, gas |-> GasLimit(tl.gas_estimate),
                 gasPrice |-> tl.gas_price, nonce |-> tl.nonce])
    /\ tpc' = "sign"
    /\ UNCHANGED <<tin, sent, ops, result, exit_code, message>>
    /\ UNCHANGED <<chainVars, pvars, mvars, hvars, cvars>>

\* lines 167-168: sign_transaction with the account's key
Signing ==
    /\ tpc = "sign"
    /\ tl' = Bind(tl, "signed_txn", [raw |-> tl.transaction, signer |-> tl.from_address])
    /\ ops' = ops \cup {"sign_transaction"}
    /\ tpc' = "send"
    /\ UNCHANGED <<tin, sent, result, exit_code, message>>
    /\ UNCHANGED <<chainVars, pvars, mvars, hvars, cvars>>

\* lines 170-175: send_raw_transaction; the hash is known only when it answers
Submitting ==
    /\ tpc = "send"
    /\ sent' = Append(sent, tl.signed_txn)
    /\ ops' = ops \cup {"send_raw_transaction"}
    /\ \/ Raise("RpcError") /\ UNCHANGED tl
       \/ /\ tl' = Bind(tl, "tx_hash", TxHashOf(tl.signed_txn))
          /\ tpc' = "wait"
          /\ UNCHANGED result
    /\ UNCHANGED <<tin, exit_code, message>>
    /\ UNCHANGED <<chainVars, pvars, mvars, hvars, cvars>>

\* lines 180-194: the dict returned once a receipt is there
TransferResult(receipt) ==
    LET r == [success |-> TRUE, tx_hash |-> tl.tx_hash, from |-> tl.from_address,
              to |-> tl.to_address, amount |-> tin.amount, network |-> tin.network,
              block |-> receipt.blockNumber, gas_used |-> receipt.gasUsed,
              status |-> IF receipt.status = 1 THEN "confirmed" ELSE "failed",
              explorer |-> <<"explorer/tx", tl.tx_hash>>]
    IN IF tl.display_name # None /\ tl.display_name # <<>>
       THEN [k \in DOMAIN r \cup {"recipient_name"} |->
               IF k = "recipient_name" THEN tl.display_name ELSE r[k]]
       ELSE r

\* A variant of the confirmation wait that signs and sends again after a timeout
Confirming_Resubmit ==
    /\ tpc = "wait"
    /\ ops' = ops \cup {"wait_for_transaction_receipt"}
    /\ \/ /\ tpc' = "sign"
          /\ UNCHANGED <<tl, result>>
       \/ \E status \in {0, 1}, blk \in 1..2 :
            LET receipt == [status |-> status, blockNumber |-> blk,
                            gasUsed |-> tl.gas_estimate]
            IN /\ tl' = Bind(tl, "receipt", receipt)
               /\ result' = TransferResult(receipt)
               /\ tpc' = "returned"
    /\ UNCHANGED <<tin, sent, exit_code, message>>
    /\ UNCHANGED <<chainVars, pvars, mvars, hvars, cvars>>

\* lines 177-194 and 196-201: wait_for_transaction_receipt(tx_hash, timeout=300),
\* then the result; a wait that raises ends in the except clause
Confirming ==
    /\ tpc = "wait"
    /\ ops' = ops \cup {"wait_for_transaction_receipt"}
    /\ \/ \E e \in {"TimeExhausted", "RpcError"} :
            /\ Raise(e)
            /\ UNCHANGED tl
       \/ \E status \in {0, 1}, blk \in 1..2 :
            LET receipt == [status |-> status, blockNumber |-> blk,
                            gasUsed |-> tl.gas_estimate]
            IN /\ tl' = Bind(tl, "receipt", receipt)
               /\ result' = TransferResult(receipt)
               /\ tpc' = "returned"
    /\ UNCHANGED <<tin, sent, exit_code, message>>
    /\ UNCHANGED <<chainVars, pvars, mvars, hvars, cvars>>

\* lines 207-219: main() hands to transfer_usdc a network of NETWORKS (argparse
\* choices) and a key (it exits before the call when there is none)
FromCommandLine == tin.network \in NETWORKS /\ tin.private_key # None

\* lines 230-247 of main(): the result is printed and the exit status set
Main ==
    /\ tpc = "returned"
    /\ FromCommandLine
    /\ tpc' = "exited"
    /\ IF tin.json
       THEN exit_code' = Some(0) /\ message' = result
       ELSE IF result.success
            THEN exit_code' = Some(0) /\ message' = <<"Transfer successful!", result.tx_hash>>
            ELSE exit_code' = Some(1) /\ message' = <<"Transfer failed", result.error>>
    /\ UNCHANGED <<tin, tl, sent, ops, result>>
    /\ UNCHANGED <<chainVars, pvars, mvars, hvars, cvars>>

TNext ==
    \/ CallTransfer \/ Resolving \/ Connecting \/ LoadWallet \/ Quoting
    \/ CheckBalance \/ CheckEthBalance \/ FetchNonce \/ EstimateGas
    \/ ResolveGasPrice \/ Building \/ Signing \/ Submitting \/ Confirming \/ Main

(***************************************************************************)
(* Two runs of transfer_usdc at once, with one key. Each run is a process  *)
(* of its own with its own locals; the two share what the node knows of    *)
(* the sender: the count of its included transactions and its pending      *)
(* transactions. The steps are those of lines 143-178.                     *)
(***************************************************************************)
Pipelines == {1, 2}

PInit ==
    /\ pipelines = [i \in Pipelines |->
                      [pc |-> "idle", amount_wei |-> None, nonce |-> None,
                       transaction |-> None, signed_txn |-> None, result |-> None]]
    /\ transaction_count = 0
    /\ txpool = {}

\* except Exception as e: return {'success': False, 'error': str(e), ...}
PRaise(i, e) ==
    pipelines' = [pipelines EXCEPT ![i].pc = "returned",
                                   ![i].result = [success |-> FALSE, error |-> e]]

\* a run passes the checks of lines 104-141 and stands before line 143
PStart(i) ==
    /\ pipelines[i].pc = "idle"
    /\ \E a \in 1..MaxAmount :
         pipelines' = [pipelines EXCEPT ![i].pc = "nonce", ![i].amount_wei = Some(a)]
    /\ UNCHANGED <<transaction_count, txpool>>
    /\ UNCHANGED <<chainVars, tvars, mvars, hvars, cvars>>

\* line 144: nonce = w3.eth.get_transaction_count(from_address); with no block
\* argument the node counts the transactions of the latest block, not the pending
PFetchNonce(i) ==
    /\ pipelines[i].pc = "nonce"
    /\ \/ PRaise(i, "RpcError")
       \/ pipelines' = [pipelines EXCEPT ![i].pc = "build",
                                         ![i].nonce = Some(transaction_count)]
    /\ UNCHANGED <<transaction_count, txpool>>
    /\ UNCHANGED <<chainVars, tvars, mvars, hvars, cvars>>

\* lines 146-165: gas estimate, gas price, build_transaction with the nonce read
PBuilding(i) ==
    /\ pipelines[i].pc = "build"
    /\ \/ PRaise(i, "RpcError")
       \/ pipelines' = [pipelines EXCEPT
              ![i].pc = "sign",
              ![i].transaction = Some([nonce |-> pipelines[i].nonce.some,
                                       amount_wei |-> pipelines[i].amount_wei.some])]
    /\ UNCHANGED <<transaction_count, txpool>>
    /\ UNCHANGED <<chainVars, tvars, mvars, hvars, cvars>>

\* line 168: signed_txn = w3.eth.account.sign_transaction(transaction, private_key)
PSigning(i) ==
    /\ pipelines[i].pc = "sign"
    /\ pipelines' = [pipelines EXCEPT ![i].pc = "send",
                                      ![i].signed_txn = pipelines[i].transaction]
    /\ UNCHANGED <<transaction_count, txpool>>
    /\ UNCHANGED <<chainVars, tvars, mvars, hvars, cvars>>

\* line 171: send_raw_transaction. The node refuses a nonce below the sender's
\* count, a transaction it already holds, and a second transaction for a pending
\* nonce that pays no more than the first
PSubmitting(i) ==
    /\ pipelines[i].pc = "send"
    /\ LET raw == pipelines[i].signed_txn.some
       IN \/ PRaise(i, "RpcError") /\ UNCHANGED txpool
          \/ /\ raw.nonce < transaction_count
             /\ PRaise(i, "nonce too low")
             /\ UNCHANGED txpool
          \/ /\ raw.nonce >= transaction_count
             /\ raw \in txpool
             /\ PRaise(i, "already known")
             /\ UNCHANGED txpool
          \/ /\ raw.nonce >= transaction_count
             /\ raw \notin txpool
             /\ \E t \in txpool : t.nonce = raw.nonce
             /\ PRaise(i, "replacement transaction underpriced")
             /\ UNCHANGED txpool
          \/ /\ raw.nonce >= transaction_count
             /\ \A t \in txpool : t.nonce # raw.nonce
             /\ txpool' = txpool \cup {raw}
             /\ pipelines' = [pipelines EXCEPT ![i].pc = "wait"]
    /\ UNCHANGED transaction_count
    /\ UNCHANGED <<chainVars, tvars, mvars, hvars, cvars>>

\* lines 177-194: wait_for_transaction_receipt(tx_hash, timeout=300), the result
PConfirming(i) ==
    /\ pipelines[i].pc = "wait"
    /\ \/ PRaise(i, "TimeExhausted")
       \/ /\ pipelines[i].signed_txn.some.nonce < transaction_count
          /\ \E status \in {0, 1} :
               pipelines' = [pipelines EXCEPT
                   ![i].pc = "returned",
                   ![i].result = [success |-> TRUE,
                                  status |-> IF status = 1 THEN "confirmed" ELSE "failed"]]
    /\ UNCHANGED <<transaction_count, txpool>>
    /\ UNCHANGED <<chainVars, tvars, mvars, hvars, cvars>>

\* the node includes the pending transaction that carries the sender's next nonce
PIncludeTransaction ==
    /\ \E t \in txpool :
         /\ t.nonce = transaction_count
         /\ txpool' = txpool \ {t}
    /\ transaction_count' = transaction_count + 1
    /\ UNCHANGED pipelines
    /\ UNCHANGED <<chainVars, tvars, mvars, hvars, cvars>>

PNext ==
    \/ \E i \in Pipelines :
         \/ PStart(i) \/ PFetchNonce(i) \/ PBuilding(i)
         \/ PSigning(i) \/ PSubmitting(i) \/ PConfirming(i)
    \/ PIncludeTransaction

(***************************************************************************)
(* The chain behind the RPC endpoint. A Transfer log of the token contract *)
(* carries the hash of its transaction, its block, its position in the     *)
(* block and the two indexed parties. Blocks are mined while the programs  *)
(* run; a transaction may emit several Transfer logs.                      *)
(***************************************************************************)
MonitorMaxHead == 3
MonitorMaxLogs == 3
HistoryMaxHead == 4
HistoryMaxLogs == 3
RpcLag == 1
StartHead == 1

\* the 32-byte topic of an address: its lowercase digits (zero padding left out)
Topic(address) == Lower(Remove0x(address))

\* from -> to of the transfers that happen on the chain: out of A, into A,
\* from A to itself
Flows == {<<AddrA, AddrB>>, <<AddrB, AddrA>>, <<AddrA, AddrA>>}
\* the transfers a monitor of A tells apart: into A, and not into A
MonitorFlows == {<<AddrA, AddrB>>, <<AddrB, AddrA>>}

ChainInit ==
    /\ head = StartHead
    /\ chain = <<>>

NewLog(tx, blk, idx, flow) ==
    [transactionHash |-> tx, blockNumber |-> blk, logIndex |-> idx,
     topic1 |-> Topic(flow[1]), topic2 |-> Topic(flow[2])]

\* the hash of the next transaction: transactions are numbered as they are included
TxCount == Cardinality({chain[i].transactionHash : i \in 1..Len(chain)})
FreshTx == <<"tx", TxCount + 1>>

\* A block is mined: the head advances. The block holds no Transfer log, one,
\* or two; two logs come from two transactions or from one.
MineBlock(flows, maxHead, maxLogs) ==
    /\ head < maxHead
    /\ head' = head + 1
    /\ \/ chain' = chain
       \/ /\ Len(chain) < maxLogs
          /\ \E f \in flows : chain' = Append(chain, NewLog(FreshTx, head + 1, 0, f))
       \/ /\ Len(chain) + 1 < maxLogs
          /\ \E f \in flows, g \in flows, second \in {FreshTx, <<"tx", TxCount + 2>>} :
               chain' = chain \o <<NewLog(FreshTx, head + 1, 0, f),
                                   NewLog(second, head + 1, 1, g)>>
    /\ UNCHANGED <<tvars, pvars, mvars, hvars, cvars>>

\* w3.eth.block_number: the head of the node that answers, which may lag
BlockNumberAnswers == {n \in StartHead..head : n >= head - RpcLag}

\* w3.eth.get_logs: the logs of the blocks fromBlock..toBlock that match the
\* topics, in emission order; a topic of None matches every log
get_logs(fromBlock, toBlock, topic1, topic2) ==
    SelectSeq(chain, LAMBDA l :
        /\ fromBlock <= l.blockNumber
        /\ l.blockNumber <= toBlock
        /\ (topic1 # None => l.topic1 = topic1)
        /\ (topic2 # None => l.topic2 = topic2))

\* w3.eth.get_block(n)['timestamp']
BlockTimestamp(n) == 12 * n

(***************************************************************************)
(* monitor_incoming                                                        *)
(***************************************************************************)
MInit ==
    /\ mpc = "idle"
    /\ margs = None
    /\ last_block = 0
    /\ current_block = 0
    /\ seen_txs = {}
    /\ logs = <<>>
    /\ li = 0
    /\ printed = <<>>
    /\ outfile = <<>>
    /\ queries = <<>>


\* the log being processed by the for loop
log == logs[li]

\* lines 29-49: the checks before the loop, then last_block and seen_txs.
\* An error here is caught by the outer except clause, which exits.
StartMonitor ==
    /\ mpc = "idle"
    /\ \E address \in {MkAddr(<<"0", "x">>, <<"a", "b">>), <<"z">>},
          output_file \in {None, Some("incoming.jsonl")},
          webhook \in {None} :
         /\ margs' = [address |-> address, output_file |-> output_file, webhook |-> webhook]
         /\ IF ~IsAddress(address)
            THEN mpc' = "exit_1" /\ UNCHANGED <<last_block, seen_txs>>
            ELSE \/ mpc' = "exit_1" /\ UNCHANGED <<last_block, seen_txs>>
                 \/ /\ \E n \in BlockNumberAnswers : last_block' = n
                    /\ seen_txs' = {}
                    /\ mpc' = "tick"
    /\ UNCHANGED <<current_block, logs, li, printed, outfile, queries>>
    /\ UNCHANGED <<chainVars, pvars, tvars, hvars, cvars>>

\* A variant of the head read that leaves the loop when no new block is there
ReadBlockNumber_StopWhenIdle ==
    /\ mpc = "tick"
    /\ \/ mpc' = "except" /\ UNCHANGED current_block
       \/ \E n \in BlockNumberAnswers :
            /\ current_block' = n
            /\ mpc' = IF n > last_block THEN "get_logs" ELSE "stopped"
    /\ UNCHANGED <<margs, last_block, seen_txs, logs, li, printed, outfile, queries>>
    /\ UNCHANGED <<chainVars, pvars, tvars, hvars, cvars>>

\* A variant of the head read that queries the logs whatever the head is
ReadBlockNumber_AlwaysQuery ==
    /\ mpc = "tick"
    /\ \/ mpc' = "except" /\ UNCHANGED current_block
       \/ \E n \in BlockNumberAnswers :
            /\ current_block' = n
            /\ mpc' = "get_logs"
    /\ UNCHANGED <<margs, last_block, seen_txs, logs, li, printed, outfile, queries>>
    /\ UNCHANGED <<chainVars, pvars, tvars, hvars, cvars>>

\* lines 53-55: the head is read and compared with last_block
ReadBlockNumber ==
    /\ mpc = "tick"
    /\ \/ mpc' = "except" /\ UNCHANGED current_block
       \/ \E n \in BlockNumberAnswers :
            /\ current_block' = n
            /\ mpc' = IF n > last_block THEN "get_logs" ELSE "sleep"
    /\ UNCHANGED <<margs, last_block, seen_txs, logs, li, printed, outfile, queries>>
    /\ UNCHANGED <<chainVars, pvars, tvars, hvars, cvars>>

\* A variant of the log query that moves last_block as soon as the query is answered
GetLogs_AdvanceEarly ==
    /\ mpc = "get_logs"
    /\ LET answer == get_logs(last_block + 1, current_block, None,
                              Topic(ToChecksum(margs.address)))
       IN /\ logs' = answer
          /\ queries' = Append(queries, [fromBlock |-> last_block + 1,
                                         toBlock |-> current_block,
                                         logs |-> answer, completed |-> FALSE])
    /\ li' = 1
    /\ last_block' = current_block
    /\ mpc' = "for"
    /\ UNCHANGED <<margs, current_block, seen_txs, printed, outfile>>
    /\ UNCHANGED <<chainVars, pvars, tvars, hvars, cvars>>

\* lines 56-65: the Transfer logs to the address in last_block+1 .. current_block
GetLogs ==
    /\ mpc = "get_logs"
    /\ \/ mpc' = "except" /\ UNCHANGED <<logs, li, queries>>
       \/ /\ LET answer == get_logs(last_block + 1, current_block, None,
                                    Topic(ToChecksum(margs.address)))
             IN /\ logs' = answer
                /\ queries' = Append(queries, [fromBlock |-> last_block + 1,
                                               toBlock |-> current_block,
                                               logs |-> answer, completed |-> FALSE])
          /\ li' = 1
          /\ mpc' = "for"
    /\ UNCHANGED <<margs, last_block, current_block, seen_txs, printed, outfile>>
    /\ UNCHANGED <<chainVars, pvars, tvars, hvars, cvars>>

\* lines 67-74: the next log of the batch; a hash already seen is skipped,
\* a new one is recorded
Dedup ==
    /\ mpc = "for"
    /\ li <= Len(logs)
    /\ IF log.transactionHash \in seen_txs
       THEN li' = li + 1 /\ UNCHANGED <<seen_txs, mpc>>
       ELSE /\ seen_txs' = seen_txs \cup {log.transactionHash}
            /\ mpc' = "decode"
            /\ UNCHANGED li
    /\ UNCHANGED <<margs, last_block, current_block, logs, printed, outfile, queries>>
    /\ UNCHANGED <<chainVars, pvars, tvars, hvars, cvars>>

\* lines 76-92: the log is parsed and its block looked up; int(log['data'], 16)
\* and get_block may raise
Decode ==
    /\ mpc = "decode"
    /\ \/ mpc' = "except"
       \/ mpc' = "print"
    /\ UNCHANGED <<margs, last_block, current_block, seen_txs, logs, li, printed,
                   outfile, queries>>
    /\ UNCHANGED <<chainVars, pvars, tvars, hvars, cvars>>

\* lines 84-92: the notification of the log being processed
incoming ==
    [timestamp |-> BlockTimestamp(log.blockNumber), block |-> log.blockNumber,
     tx_hash |-> log.transactionHash, from |-> ToChecksum(<<"0", "x">> \o log.topic1),
     to |-> ToChecksum(margs.address)]

\* lines 94-101: the notification on the console
Notify ==
    /\ mpc = "print"
    /\ printed' = Append(printed, incoming)
    /\ mpc' = "write"
    /\ UNCHANGED <<margs, last_block, current_block, seen_txs, logs, li, outfile, queries>>
    /\ UNCHANGED <<chainVars, pvars, tvars, hvars, cvars>>

\* lines 103-110: the record appended to the output file, the webhook line,
\* and on to the next log
WriteOutput ==
    /\ mpc = "write"
    /\ IF margs.output_file # None
       THEN \/ mpc' = "except" /\ UNCHANGED <<outfile, li>>
            \/ /\ outfile' = Append(outfile, incoming)
               /\ li' = li + 1
               /\ mpc' = "for"
       ELSE /\ li' = li + 1
            /\ mpc' = "for"
            /\ UNCHANGED outfile
    /\ UNCHANGED <<margs, last_block, current_block, seen_txs, logs, printed, queries>>
    /\ UNCHANGED <<chainVars, pvars, tvars, hvars, cvars>>

\* line 112: the batch is through, last_block moves to current_block
EndBatch ==
    /\ mpc = "for"
    /\ li > Len(logs)
    /\ last_block' = current_block
    /\ queries' = [queries EXCEPT ![Len(queries)].completed = TRUE]
    /\ mpc' = "sleep"
    /\ UNCHANGED <<margs, current_block, seen_txs, logs, li, printed, outfile>>
    /\ UNCHANGED <<chainVars, pvars, tvars, hvars, cvars>>

\* line 114: time.sleep(interval), then the next tick
Sleep ==
    /\ mpc = "sleep"
    /\ mpc' = "tick"
    /\ UNCHANGED <<margs, last_block, current_block, seen_txs, logs, li, printed,
                   outfile, queries>>
    /\ UNCHANGED <<chainVars, pvars, tvars, hvars, cvars>>

\* A variant of the error handler that lets the error end the program
ExceptSleep_Exit ==
    /\ mpc = "except"
    /\ mpc' = "exit_1"
    /\ UNCHANGED <<margs, last_block, current_block, seen_txs, logs, li, printed,
                   outfile, queries>>
    /\ UNCHANGED <<chainVars, pvars, tvars, hvars, cvars>>

\* lines 119-121: the error is printed, time.sleep(interval), then the next tick
ExceptSleep ==
    /\ mpc = "except"
    /\ mpc' = "tick"
    /\ UNCHANGED <<margs, last_block, current_block, seen_txs, logs, li, printed,
                   outfile, queries>>
    /\ UNCHANGED <<chainVars, pvars, tvars, hvars, cvars>>

\* lines 116-118: Ctrl+C inside the try block ends the loop; during the sleep of
\* the except clause nothing catches it and it leaves monitor_incoming
KeyboardInterrupt ==
    /\ mpc \in {"tick", "get_logs", "for", "decode", "print", "write", "sleep", "except"}
    /\ mpc' = IF mpc = "except" THEN "uncaught" ELSE "stopped"
    /\ UNCHANGED <<margs, last_block, current_block, seen_txs, logs, li, printed,
                   outfile, queries>>
    /\ UNCHANGED <<chainVars, pvars, tvars, hvars, cvars>>

MNext ==
    \/ StartMonitor \/ ReadBlockNumber \/ GetLogs \/ Dedup \/ Decode \/ Notify
    \/ WriteOutput \/ EndBatch \/ Sleep \/ ExceptSleep \/ KeyboardInterrupt

(***************************************************************************)
(* get_history / get_history_via_rpc                                       *)
(***************************************************************************)
MaxLimit == 3
\* the number of blocks scanned back from the head (1000 in the program)
HistoryWindow == 2

HInit ==
    /\ hpc = "idle"
    /\ hin = None
    /\ hl = <<>>
    /\ hresult = None
    /\ hcalls = <<>>

\* seq[:n]
Take(seq, n) ==
    IF n >= 0
    THEN SubSeq(seq, 1, IF n < Len(seq) THEN n ELSE Len(seq))
    ELSE SubSeq(seq, 1, IF Len(seq) + n > 0 THEN Len(seq) + n ELSE 0)

Max(a, b) == IF a >= b THEN a ELSE b

\* A variant of the sort that puts the oldest block first
RECURSIVE SortByBlockDesc_Ascending(_)
SortByBlockDesc_Ascending(txs) ==
    IF txs = <<>> THEN <<>>
    ELSE LET rest == SortByBlockDesc_Ascending(Tail(txs))
             x == Head(txs)
             before == SelectSeq(rest, LAMBDA y : y.block < x.block)
             after == SelectSeq(rest, LAMBDA y : y.block >= x.block)
         IN before \o <<x>> \o after

\* line 104: transactions.sort(key=lambda x: x['block'], reverse=True), a stable
\* sort: entries of one block keep the order they had
RECURSIVE SortByBlockDesc(_)
SortByBlockDesc(txs) ==
    IF txs = <<>> THEN <<>>
    ELSE LET rest == SortByBlockDesc(Tail(txs))
             x == Head(txs)
             before == SelectSeq(rest, LAMBDA y : y.block > x.block)
             after == SelectSeq(rest, LAMBDA y : y.block <= x.block)
         IN before \o <<x>> \o after

\* except Exception as e: return {'success': False, 'error': ..., ...}
HRaise(e) ==
    /\ hresult' = [success |-> FALSE, error |-> e, address |-> hin.address,
                   network |-> hin.network]
    /\ hpc' = "returned"

\* the caller invokes get_history(address, network, limit)
CallHistory ==
    /\ hpc = "idle"
    /\ \E address \in {MkAddr(<<"0", "x">>, <<"a", "b">>), <<"z">>},
          network \in {"base-sepolia", "mainnet"}, limit \in 0..MaxLimit :
         hin' = [address |-> address, network |-> network, limit |-> limit]
    /\ hpc' = "connect"
    /\ UNCHANGED <<hl, hresult, hcalls>>
    /\ UNCHANGED <<chainVars, pvars, tvars, mvars, cvars>>

\* lines 35-42: the network's entry, the connection, the checksummed address
HistoryConnect ==
    /\ hpc = "connect"
    /\ IF hin.network \notin NETWORKS
       THEN HRaise("KeyError") /\ UNCHANGED hl
       ELSE \/ HRaise("Failed to connect") /\ UNCHANGED hl
            \/ IF ~IsAddress(hin.address)
               THEN HRaise("invalid address") /\ UNCHANGED hl
               ELSE /\ hl' = Bind(hl, "address", ToChecksum(hin.address))
                    /\ hpc' = "head"
                    /\ UNCHANGED hresult
    /\ UNCHANGED <<hin, hcalls>>
    /\ UNCHANGED <<chainVars, pvars, tvars, mvars, cvars>>

\* lines 44-53: the head, the first block of the window, the address topic
HistoryReadHead ==
    /\ hpc = "head"
    /\ \/ HRaise("RpcError") /\ UNCHANGED hl
       \/ /\ \E n \in BlockNumberAnswers :
               hl' = Bind(Bind(Bind(hl, "current_block", n),
                               "from_block", Max(0, n - HistoryWindow)),
                          "address_topic", Lower(Remove0x(hl.address)))
          /\ hpc' = "logs_from"
          /\ UNCHANGED hresult
    /\ UNCHANGED <<hin, hcalls>>
    /\ UNCHANGED <<chainVars, pvars, tvars, mvars, cvars>>

\* lines 55-61: the transfers from the address, from_block .. 'latest'
HistoryLogsFrom ==
    /\ hpc = "logs_from"
    /\ \/ HRaise("RpcError") /\ UNCHANGED hl
       \/ /\ hl' = Bind(hl, "logs_from",
                        get_logs(hl.from_block, head, hl.address_topic, None))
          /\ hpc' = "logs_to"
          /\ UNCHANGED hresult
    /\ UNCHANGED <<hin, hcalls>>
    /\ UNCHANGED <<chainVars, pvars, tvars, mvars, cvars>>

\* lines 63-73: the transfers to the address, from_block .. 'latest'; the two
\* answers are joined
HistoryLogsTo ==
    /\ hpc = "logs_to"
    /\ \/ HRaise("RpcError") /\ UNCHANGED hl
       \/ /\ LET logs_to == get_logs(hl.from_block, head, None, hl.address_topic)
             IN hl' = Bind(Bind(Bind(Bind(hl, "logs_to", logs_to),
                                     "all_logs", hl.logs_from \o logs_to),
                                "transactions", <<>>),
                           "i", 1)
          /\ hpc' = "for"
          /\ UNCHANGED hresult
    /\ UNCHANGED <<hin, hcalls>>
    /\ UNCHANGED <<chainVars, pvars, tvars, mvars, cvars>>

\* lines 76-101: the entry of the history for one log, with its block's timestamp
HistoryEntry(l, address, timestamp) ==
    LET from_addr == <<"0", "x">> \o l.topic1
        to_addr == <<"0", "x">> \o l.topic2
        direction == IF Lower(to_addr) = Lower(address) THEN "in" ELSE "out"
        counterparty == IF direction = "in" THEN from_addr ELSE to_addr
    IN [hash |-> l.transactionHash, block |-> l.blockNumber, timestamp |-> timestamp,
        from |-> ToChecksum(from_addr), to |-> ToChecksum(to_addr),
        direction |-> direction, counterparty |-> ToChecksum(counterparty)]

\* lines 75-101: one round of `for log in all_logs[:limit]`, with its get_block
HistoryLog ==
    /\ hpc = "for"
    /\ hl.i <= Len(Take(hl.all_logs, hin.limit))
    /\ LET l == Take(hl.all_logs, hin.limit)[hl.i]
       IN /\ hcalls' = Append(hcalls, l.blockNumber)
          /\ \/ HRaise("RpcError") /\ UNCHANGED hl
             \/ /\ hl' = Bind(Bind(hl, "transactions",
                                   Append(hl.transactions,
                                          HistoryEntry(l, hl.address,
                                                       BlockTimestamp(l.blockNumber)))),
                              "i", hl.i + 1)
                /\ UNCHANGED <<hpc, hresult>>
    /\ UNCHANGED hin
    /\ UNCHANGED <<chainVars, pvars, tvars, mvars, cvars>>

\* lines 103-113: the sort, then the first `limit` entries are returned
HistoryReturn ==
    /\ hpc = "for"
    /\ hl.i > Len(Take(hl.all_logs, hin.limit))
    /\ LET sorted == SortByBlockDesc(hl.transactions)
       IN /\ hl' = Bind(hl, "transactions", sorted)
          /\ hresult' = [success |-> TRUE, address |-> hl.address, network |-> hin.network,
                         transactions |-> Take(sorted, hin.limit), method |-> "rpc",
                         blocks_scanned |-> <<hl.from_block, hl.current_block>>]
    /\ hpc' = "returned"
    /\ UNCHANGED <<hin, hcalls>>
    /\ UNCHANGED <<chainVars, pvars, tvars, mvars, cvars>>

HNext ==
    \/ CallHistory \/ HistoryConnect \/ HistoryReadHead \/ HistoryLogsFrom
    \/ HistoryLogsTo \/ HistoryLog \/ HistoryReturn

(***************************************************************************)
(* The contact stores. PhoneBook (phonebook.py) keeps a record per name,   *)
(* ContactsManager (contacts-manager.py) keeps the address text per name;  *)
(* each loads its JSON file when constructed and rewrites it after every   *)
(* change. A mapping is a function from the stored names.                  *)
(***************************************************************************)
MaxClock == 1
PBInstances == {1, 2}

bOB == <<"b", "O", "B">>
\* A text that is a valid address and can also be used as a contact name
HexName == MkAddr(<<"0", "x">>, <<"a", "b">>)
\* An address written in mixed case whose checksum is wrong
BadChecksum == MkAddr(<<"0", "x">>, <<"A", "b">>)

\* the names contacts are stored under
ContactNames == {Bob, bOB, HexName}
\* args.name when --name is left out: phonebook.py main passes it on as it is
\* (contacts-manager.py main refuses it)
NoName == <<"None">>
\* the key json.dump writes for it
Null == <<"n", "u", "l", "l">>
\* the names a program stores contacts under in a PhoneBook, and the names
\* phonebook.py main passes to it
PhoneBookNames == {Bob, HexName}
CommandLineNames == {Bob, NoName}
\* what callers pass to PhoneBook.get
PhoneBookTokens == {Bob, bOB, HexName, NoName, MkAddr(<<"0", "x">>, <<"b", "c">>),
                    MkAddr(<<>>, <<"B", "C">>), BadChecksum}
\* a text that is no address at all
NotAnAddress == <<"z">>
\* what callers pass as the address of a new contact
NewAddresses == {MkAddr(<<"0", "x">>, <<"a", "b">>), MkAddr(<<"0", "x">>, <<"b", "c">>),
                 BadChecksum, NotAnAddress}
\* what callers pass to get
Tokens == {Bob, bOB, HexName, MkAddr(<<"0", "x">>, <<"b", "c">>),
           MkAddr(<<>>, <<"B", "C">>), BadChecksum, <<"z">>}
Queries == {<<"b">>, <<"x">>, <<"z">>}
\* what callers pass to PhoneBook.add: an address typed by hand with the default
\* chain and via, or the address, chain and via of a scanned code
NewContacts == {[address |-> MkAddr(<<"0", "x">>, <<"a", "b">>), chain |-> "base", via |-> "manual"],
                [address |-> MkAddr(<<"0", "x">>, <<"b", "c">>), chain |-> "eth", via |-> "qr"],
                [address |-> BadChecksum, chain |-> "base", via |-> "manual"],
                [address |-> NotAnAddress, chain |-> "base", via |-> "manual"]}

CInit ==
    /\ phonebook_file = None
    /\ phonebook = [i \in PBInstances |-> None]
    /\ contacts_file = None
    /\ contacts = None
    /\ creturn = None
    /\ qr = None

\* _load / _load_contacts: the content of the file, {} when there is none
Load(file) == IF file = None THEN <<>> ELSE file.some

\* json.dump(self.contacts, ...): the keys of a JSON object are texts, a key
\* None is written as "null"; of two entries written under the same key,
\* json.load keeps the later one, which is the one stored under None (a key
\* "null" can only have come from the file, before any call of the instance)
JsonKey(name) == IF name = NoName THEN Null ELSE name
JsonDump(mapping) ==
    [k \in {JsonKey(n) : n \in DOMAIN mapping} |->
        IF k = Null /\ NoName \in DOMAIN mapping THEN mapping[NoName] ELSE mapping[k]]

\* A store that keeps the value a name already has
Store_SetDefault(mapping, name, value) ==
    [n \in DOMAIN mapping \cup {name} |-> IF n \in DOMAIN mapping THEN mapping[n] ELSE value]

\* self.contacts[name] = value
Store(mapping, name, value) ==
    [n \in DOMAIN mapping \cup {name} |-> IF n = name THEN value ELSE mapping[n]]

\* A removal that empties the mapping
Delete_Clear(mapping, name) == [n \in {} |-> mapping[n]]

\* del self.contacts[name]
Delete(mapping, name) == [n \in DOMAIN mapping \ {name} |-> mapping[n]]

\* {k: v for k, v in self.contacts.items() if q in k.lower()}
Search(mapping, query) ==
    [n \in {k \in DOMAIN mapping : Contains(Lower(k), Lower(query))} |-> mapping[n]]

CReturn(store, op, name, value) ==
    [store |-> store, op |-> op, name |-> name, raised |-> FALSE, value |-> value]
CRaise(store, op, name, error) ==
    [store |-> store, op |-> op, name |-> name, raised |-> TRUE, error |-> error]

\* ---- PhoneBook

\* A lookup that compares names without regard to case
PhoneBook_get_AnyCase(mapping, name) ==
    LET hits == {n \in DOMAIN mapping : Lower(n) = Lower(name)}
    IN IF hits # {}
       THEN CReturn("PhoneBook", "get", name, mapping[CHOOSE n \in hits : TRUE].address)
       ELSE IF IsAddress(name)
       THEN CReturn("PhoneBook", "get", name, ToChecksum(name))
       ELSE CRaise("PhoneBook", "get", name, "KeyError")

\* A lookup that hands an address back as it was typed
PhoneBook_get_Verbatim(mapping, name) ==
    IF name \in DOMAIN mapping
    THEN CReturn("PhoneBook", "get", name, mapping[name].address)
    ELSE IF IsAddress(name)
    THEN CReturn("PhoneBook", "get", name, name)
    ELSE CRaise("PhoneBook", "get", name, "KeyError")

\* PhoneBook.get, lines 51-57
PhoneBook_get(mapping, name) ==
    IF name \in DOMAIN mapping
    THEN CReturn("PhoneBook", "get", name, mapping[name].address)
    ELSE IF IsAddress(name)
    THEN CReturn("PhoneBook", "get", name, ToChecksum(name))
    ELSE CRaise("PhoneBook", "get", name, "KeyError")

\* pb = PhoneBook(filepath); self is the instance a call was made on
PhoneBookNew(i) ==
    /\ phonebook' = [phonebook EXCEPT ![i] = Some(Load(phonebook_file))]
    /\ creturn' = Bind(CReturn("PhoneBook", "__init__", None, TRUE), "self", i)
    /\ UNCHANGED <<phonebook_file, contacts_file, contacts>>
    /\ UNCHANGED <<chainVars, pvars, tvars, mvars, hvars, qr>>

\* A record that keeps the address as it was typed
PhoneBook_record_AsTyped(new, utcnow) ==
    [address |-> new.address, chain |-> new.chain, addedAt |-> utcnow, addedVia |-> new.via]

\* lines 40-47: the record of a contact; utcnow is what the wall clock answers
PhoneBook_record(new, utcnow) ==
    [address |-> ToChecksum(new.address), chain |-> new.chain, addedAt |-> utcnow,
     addedVia |-> new.via]

\* what a call of add was given: the address as passed, chain and via, and the
\* record the name had before the call
AddCall(call, new, mapping, name) ==
    Bind(Bind(Bind(Bind(call, "address", new.address), "chain", new.chain), "via", new.via),
         "before", IF name \in DOMAIN mapping THEN Some(mapping[name]) ELSE None)

\* An add that stores and saves the contact before it looks at the address
PhoneBookAdd_ValidateLast(i, names) ==
    /\ phonebook[i] # None
    /\ \E name \in names, new \in NewContacts, utcnow \in 0..MaxClock :
         LET record == IF IsAddress(new.address)
                       THEN PhoneBook_record(new, utcnow)
                       ELSE PhoneBook_record_AsTyped(new, utcnow)
             mapping == Store(phonebook[i].some, name, record)
         IN /\ phonebook' = [phonebook EXCEPT ![i] = Some(mapping)]
            /\ phonebook_file' = Some(JsonDump(mapping))
            /\ creturn' =
                 IF ~IsAddress(new.address)
                 THEN Bind(AddCall(CRaise("PhoneBook", "add", name, "ValueError"),
                                   new, phonebook[i].some, name), "self", i)
                 ELSE Bind(Bind(AddCall(CReturn("PhoneBook", "add", name,
                                                ToChecksum(new.address)),
                                        new, phonebook[i].some, name),
                                "utcnow", utcnow), "self", i)
    /\ UNCHANGED <<contacts_file, contacts>>
    /\ UNCHANGED <<chainVars, pvars, tvars, mvars, hvars, qr>>

\* pb.add(name, address, chain, via), lines 37-49
PhoneBookAdd(i, names) ==
    /\ phonebook[i] # None
    /\ \E name \in names, new \in NewContacts :
         IF ~IsAddress(new.address)
         THEN /\ creturn' = Bind(AddCall(CRaise("PhoneBook", "add", name, "ValueError"),
                                         new, phonebook[i].some, name), "self", i)
              /\ UNCHANGED <<phonebook, phonebook_file>>
         ELSE \E utcnow \in 0..MaxClock :
              LET mapping == Store(phonebook[i].some, name, PhoneBook_record(new, utcnow))
              IN /\ phonebook' = [phonebook EXCEPT ![i] = Some(mapping)]
                 /\ phonebook_file' = Some(JsonDump(mapping))
                 /\ creturn' = Bind(Bind(AddCall(CReturn("PhoneBook", "add", name,
                                                         ToChecksum(new.address)),
                                                 new, phonebook[i].some, name),
                                         "utcnow", utcnow), "self", i)
    /\ UNCHANGED <<contacts_file, contacts>>
    /\ UNCHANGED <<chainVars, pvars, tvars, mvars, hvars, qr>>

\* pb.get(name)
PhoneBookGet(i) ==
    /\ phonebook[i] # None
    /\ \E name \in PhoneBookTokens :
         creturn' = Bind(PhoneBook_get(phonebook[i].some, name), "self", i)
    /\ UNCHANGED <<phonebook_file, phonebook, contacts_file, contacts>>
    /\ UNCHANGED <<chainVars, pvars, tvars, mvars, hvars, qr>>

\* pb.remove(name)
PhoneBookRemove(i, names) ==
    /\ phonebook[i] # None
    /\ \E name \in names :
         IF name \in DOMAIN phonebook[i].some
         THEN LET mapping == Delete(phonebook[i].some, name)
              IN /\ phonebook' = [phonebook EXCEPT ![i] = Some(mapping)]
                 /\ phonebook_file' = Some(JsonDump(mapping))
                 /\ creturn' = Bind(CReturn("PhoneBook", "remove", name, TRUE), "self", i)
         ELSE /\ creturn' = Bind(CReturn("PhoneBook", "remove", name, FALSE), "self", i)
              /\ UNCHANGED <<phonebook, phonebook_file>>
    /\ UNCHANGED <<contacts_file, contacts>>
    /\ UNCHANGED <<chainVars, pvars, tvars, mvars, hvars, qr>>

\* pb.search(query); k.lower() fails on a key that is not a text
PhoneBookSearch(i) ==
    /\ phonebook[i] # None
    /\ \E query \in Queries :
         creturn' = IF NoName \in DOMAIN phonebook[i].some
                    THEN Bind(CRaise("PhoneBook", "search", query, "AttributeError"), "self", i)
                    ELSE Bind(CReturn("PhoneBook", "search", query,
                                      Search(phonebook[i].some, query)), "self", i)
    /\ UNCHANGED <<phonebook_file, phonebook, contacts_file, contacts>>
    /\ UNCHANGED <<chainVars, pvars, tvars, mvars, hvars, qr>>

\* the calls a program makes on the instances it holds
PBNext(instances, names) ==
    \/ \E i \in instances : PhoneBookNew(i)
    \/ \E i \in instances : PhoneBookAdd(i, names)
    \/ \E i \in instances : PhoneBookGet(i)
    \/ \E i \in instances : PhoneBookRemove(i, names)
    \/ \E i \in instances : PhoneBookSearch(i)

\* ---- ContactsManager

\* A lookup that tries the address reading of the name first
ContactsManager_get_AddressFirst(mapping, name) ==
    IF IsAddress(name)
    THEN CReturn("ContactsManager", "get", name, ToChecksum(name))
    ELSE IF name \in DOMAIN mapping
    THEN CReturn("ContactsManager", "get", name, mapping[name])
    ELSE CRaise("ContactsManager", "get", name, "KeyError")

\* ContactsManager.get, lines 45-58
ContactsManager_get(mapping, name) ==
    IF name \in DOMAIN mapping
    THEN CReturn("ContactsManager", "get", name, mapping[name])
    ELSE IF IsAddress(name)
    THEN CReturn("ContactsManager", "get", name, ToChecksum(name))
    ELSE CRaise("ContactsManager", "get", name, "KeyError")

\* manager = ContactsManager()
ContactsManagerNew ==
    /\ contacts' = Some(Load(contacts_file))
    /\ creturn' = CReturn("ContactsManager", "__init__", None, TRUE)
    /\ UNCHANGED <<phonebook_file, phonebook, contacts_file>>
    /\ UNCHANGED <<chainVars, pvars, tvars, mvars, hvars, qr>>

\* manager.add(name, address)
ContactsManagerAdd ==
    /\ contacts # None
    /\ \E name \in ContactNames, address \in NewAddresses :
         IF ~IsAddress(address)
         THEN /\ creturn' = Bind(CRaise("ContactsManager", "add", name, "ValueError"),
                                 "address", address)
              /\ UNCHANGED <<contacts, contacts_file>>
         ELSE LET mapping == Store(contacts.some, name, ToChecksum(address))
              IN /\ contacts' = Some(mapping)
                 /\ contacts_file' = Some(JsonDump(mapping))
                 /\ creturn' = Bind(CReturn("ContactsManager", "add", name, TRUE),
                                    "address", address)
    /\ UNCHANGED <<phonebook_file, phonebook>>
    /\ UNCHANGED <<chainVars, pvars, tvars, mvars, hvars, qr>>

\* manager.get(name)
ContactsManagerGet ==
    /\ contacts # None
    /\ \E name \in Tokens : creturn' = ContactsManager_get(contacts.some, name)
    /\ UNCHANGED <<phonebook_file, phonebook, contacts_file, contacts>>
    /\ UNCHANGED <<chainVars, pvars, tvars, mvars, hvars, qr>>

\* manager.remove(name)
ContactsManagerRemove ==
    /\ contacts # None
    /\ \E name \in ContactNames :
         IF name \in DOMAIN contacts.some
         THEN LET mapping == Delete(contacts.some, name)
              IN /\ contacts' = Some(mapping)
                 /\ contacts_file' = Some(JsonDump(mapping))
                 /\ creturn' = CReturn("ContactsManager", "remove", name, TRUE)
         ELSE /\ creturn' = CReturn("ContactsManager", "remove", name, FALSE)
              /\ UNCHANGED <<contacts, contacts_file>>
    /\ UNCHANGED <<phonebook_file, phonebook>>
    /\ UNCHANGED <<chainVars, pvars, tvars, mvars, hvars, qr>>

\* manager.search(query)
ContactsManagerSearch ==
    /\ contacts # None
    /\ \E query \in Queries :
         creturn' = CReturn("ContactsManager", "search", query, Search(contacts.some, query))
    /\ UNCHANGED <<phonebook_file, phonebook, contacts_file, contacts>>
    /\ UNCHANGED <<chainVars, pvars, tvars, mvars, hvars, qr>>

CMNext ==
    \/ ContactsManagerNew \/ ContactsManagerAdd \/ ContactsManagerGet
    \/ ContactsManagerRemove \/ ContactsManagerSearch

(***************************************************************************)
(* Identity codes: agent-qr-generate.py writes an agentpay: URI into an     *)
(* image, agent-qr-read.py parses such a URI, typed or read from an image,  *)
(* and stores the contact in the phone book file.  Texts are sequences of   *)
(* characters.                                                              *)
(***************************************************************************)
Scheme == <<"a", "g", "e", "n", "t", "p", "a", "y", ":">>
NameKey == <<"n", "a", "m", "e">>
ChainKey == <<"c", "h", "a", "i", "n">>
Unknown == <<"U", "n", "k", "n", "o", "w", "n">>
BaseChain == <<"b", "a", "s", "e">>
EthChain == <<"e", "t", "h">>

\* f"agentpay:{address}?name={display_name}&chain={chain}", line 19
generate_qr(address, display_name, chain_name) ==
    Scheme \o address \o <<"?">> \o NameKey \o <<"=">> \o display_name
           \o <<"&">> \o ChainKey \o <<"=">> \o chain_name

\* index of the first c in text, 0 when there is none
Find(text, c) ==
    LET hits == {k \in 1..Len(text) : text[k] = c}
    IN IF hits = {} THEN 0 ELSE CHOOSE k \in hits : \A j \in hits : k <= j

\* text.split(sep)
RECURSIVE Split(_, _)
Split(text, sep) ==
    IF Find(text, sep) = 0
    THEN <<text>>
    ELSE <<SubSeq(text, 1, Find(text, sep) - 1)>>
         \o Split(SubSeq(text, Find(text, sep) + 1, Len(text)), sep)

\* re.match(r'^agentpay:(0x[a-fA-F0-9]{40})\??(.*)$', uri), line 26: the two
\* groups, or None.  After the address an optional "?" and then any text
\* without a line break; $ also matches before a line break that ends the text.
UriMatch(uri) ==
    LET n == Len(Scheme) + 2 + AddrHexLen
        rest == SubSeq(uri, n + 1, Len(uri))
        query == IF rest # <<>> /\ rest[1] = "?" THEN Tail(rest) ELSE rest
        body == IF query # <<>> /\ query[Len(query)] = "\n"
                THEN SubSeq(query, 1, Len(query) - 1)
                ELSE query
    IN IF /\ Len(uri) >= n
          /\ SubSeq(uri, 1, Len(Scheme)) = Scheme
          /\ uri[Len(Scheme) + 1] = "0"
          /\ uri[Len(Scheme) + 2] = "x"
          /\ \A k \in (Len(Scheme) + 3)..n : IsHexChar(uri[k])
          /\ Find(body, "\n") = 0
       THEN Some([address |-> SubSeq(uri, Len(Scheme) + 1, n), params_str |-> body])
       ELSE None

\* lines 34-39: the dict of the pairs k=v of params_str; a later pair with
\* the same key replaces an earlier one, a pair without "=" is skipped
Params(params_str) ==
    LET pairs == IF params_str = <<>> THEN <<>> ELSE Split(params_str, "&")
        split == {k \in 1..Len(pairs) : Find(pairs[k], "=") # 0}
        Key(k) == SubSeq(pairs[k], 1, Find(pairs[k], "=") - 1)
        Value(k) == SubSeq(pairs[k], Find(pairs[k], "=") + 1, Len(pairs[k]))
    IN [key \in {Key(k) : k \in split} |->
          Value(CHOOSE k \in split : Key(k) = key /\ \A j \in split : Key(j) = key => j <= k)]

\* params.get(key, default)
DictGet(dict, key, default) == IF key \in DOMAIN dict THEN dict[key] ELSE default

\* parse_agentpay_uri, lines 23-45
parse_agentpay_uri(uri) ==
    IF UriMatch(uri) = None
    THEN [raised |-> TRUE, error |-> "ValueError"]
    ELSE [raised |-> FALSE,
          value |-> [address |-> ToChecksum(UriMatch(uri).some.address),
                     name |-> DictGet(Params(UriMatch(uri).some.params_str), NameKey, Unknown),
                     chain |-> DictGet(Params(UriMatch(uri).some.params_str), ChainKey,
                                       BaseChain)]]

\* add_contact, lines 94-107: the content of the file after the call
add_contact(file, name, address, chain_name, utcnow) ==
    JsonDump(Store(Load(file), name,
                   [address |-> address, chain |-> chain_name, addedAt |-> utcnow,
                    addedVia |-> "qr"]))

\* addresses, display names and chains given to agent-qr-generate.py: an
\* address in lower case and one without 0x, a plain name and one with "&"
QrAddresses == {MkAddr(<<"0", "x">>, <<"b", "c">>), MkAddr(<<>>, <<"a", "b">>)}
DisplayNames == {<<"N">>, <<"N", "&", "D">>}
Chains == {BaseChain, EthChain}

\* URIs typed after --uri: two well-formed ones, and with another scheme, with
\* a text that is no address, with an address one digit short, and with one
\* hex digit too many
TypedUris ==
    {Scheme \o AddrA,
     Scheme \o AddrB \o <<"?">> \o ChainKey \o <<"=">> \o EthChain,
     <<"p", "a", "y", ":">> \o AddrA,
     Scheme \o <<"n", "o">>,
     Scheme \o <<"0", "x", "a">>,
     Scheme \o AddrA \o <<"c">>}

\* generate_qr called by main of agent-qr-generate.py, lines 56 and 17-28; qr is
\* the call and the URI in the image it wrote
QrGenerate ==
    /\ \E address \in QrAddresses, display_name \in DisplayNames, chain_name \in Chains :
         /\ qr' = Some([address |-> address, display_name |-> display_name,
                        chain |-> chain_name,
                        uri |-> generate_qr(address, display_name, chain_name)])
         /\ creturn' = CReturn("agent-qr-generate", "generate_qr", display_name,
                               generate_qr(address, display_name, chain_name))
    /\ UNCHANGED <<phonebook_file, phonebook, contacts_file, contacts>>
    /\ UNCHANGED <<chainVars, pvars, tvars, mvars, hvars>>

\* main of agent-qr-read.py, lines 109-158, with --uri or with --image and the
\* image written last; the value is the exit status
QrReadMain ==
    /\ \E uri \in TypedUris \cup (IF qr = None THEN {} ELSE {qr.some.uri}),
          no_save \in BOOLEAN :
         LET info == parse_agentpay_uri(uri)
         IN IF info.raised
            THEN /\ creturn' = Bind(CReturn("agent-qr-read", "main", uri, 1),
                                    "error", info.error)
                 /\ UNCHANGED phonebook_file
            ELSE /\ IF no_save
                    THEN UNCHANGED phonebook_file
                    ELSE \E utcnow \in 0..MaxClock :
                         phonebook_file' =
                             Some(add_contact(phonebook_file, info.value.name,
                                              info.value.address, info.value.chain, utcnow))
                 /\ creturn' = Bind(Bind(CReturn("agent-qr-read", "main", uri, 0),
                                         "info", info.value), "saved", ~no_save)
    /\ UNCHANGED <<phonebook, contacts_file, contacts, qr>>
    /\ UNCHANGED <<chainVars, pvars, tvars, mvars, hvars>>

QrNext == QrGenerate \/ QrReadMain

Init == ChainInit /\ TInit /\ PInit /\ MInit /\ HInit /\ CInit

SpecTransfer == Init /\ [][TNext]_vars
\* two runs of transfer_usdc for one sender, started at any time
SpecTwoTransfers == Init /\ [][PNext]_vars

\* The monitor sees the chain only when it reads the head and when it queries
\* the logs of blocks up to that head: a block mined while a tick runs is seen
\* by the next read of the head, so blocks are mined between the ticks.
MonitorMineBlock ==
    mpc \in {"idle", "tick"} /\ MineBlock(MonitorFlows, MonitorMaxHead, MonitorMaxLogs)
SpecMonitor == Init /\ [][MNext \/ MonitorMineBlock]_vars

\* get_history sees the chain when it reads the head and in its two log queries
HistoryMineBlock ==
    hpc \in {"idle", "logs_from", "logs_to"} /\ MineBlock(Flows, HistoryMaxHead, HistoryMaxLogs)
SpecHistory == Init /\ [][HNext \/ HistoryMineBlock]_vars

\* two programs that each hold a PhoneBook on the same file and each keep a
\* contact of their own: the first one Bob, the second one HexName
TwoStoresNext ==
    \/ \E i \in PBInstances : PhoneBookNew(i)
    \/ PhoneBookAdd(1, {Bob})
    \/ PhoneBookAdd(2, {HexName})
    \/ PhoneBookRemove(1, {Bob})
    \/ PhoneBookRemove(2, {HexName})
SpecTwoStores == Init /\ [][TwoStoresNext]_vars

\* a program holding one PhoneBook, which it may construct again from the file
SpecPhoneBook == Init /\ [][PBNext({1}, PhoneBookNames)]_vars
\* the same with the names phonebook.py main passes on, where --name may have
\* been left out
SpecPhoneBookCli == Init /\ [][PBNext({1}, CommandLineNames)]_vars
SpecContactsManager == Init /\ [][CMNext]_vars
SpecQr == Init /\ [][QrNext]_vars

(***************************************************************************)
(* Properties of transfer_usdc, checked under SpecTransfer                 *)
(***************************************************************************)
Returned == tpc \in {"returned", "exited"}

\* C1: one invocation of transfer_usdc hands at most one transaction to
\* send_raw_transaction, whatever happens after the broadcast (a receipt wait
\* that times out or fails, any other error).
C1_BroadcastAtMostOnce == Len(sent) <= 1

\* the call has returned an error after its broadcast, the receipt wait having failed
C1_Witness ==
    /\ tpc = "returned"
    /\ Len(sent) = 1
    /\ "wait_for_transaction_receipt" \in ops
    /\ ~result.success

\* C4: a receipt with execution status failure is not reported as a successful
\* transfer: a result with success = TRUE comes only from a receipt with status 1.
C4_RevertedIsNotSuccess ==
    (Returned /\ Bound(tl, "receipt") /\ tl.receipt.status = 0) => ~result.success

\* C5: the outcome of a receipt wait that timed out after the broadcast carries
\* the transaction hash obtained at the broadcast.
C5_TimeoutCarriesHash ==
    (Returned /\ Bound(tl, "tx_hash") /\ ~result.success /\ result.error = "TimeExhausted")
        => (Bound(result, "tx_hash") /\ result.tx_hash = tl.tx_hash)

\* C6: a token balance below the amount in minor units ends the call with the
\* insufficient-balance error before any nonce is fetched and before anything is
\* signed or sent; a balance equal to or above the amount passes the check.
C6_InsufficientTokenBalance ==
    Bound(tl, "balance_wei") =>
        IF tl.balance_wei < tl.amount_wei
        THEN /\ Returned
             /\ result = [success |-> FALSE, error |-> "Insufficient USDC balance",
                          network |-> tin.network]
             /\ ops \cap {"get_transaction_count", "sign_transaction",
                          "send_raw_transaction"} = {}
             /\ sent = <<>>
        ELSE /\ tpc # "balance"
             /\ Returned => (result.success \/ result.error # "Insufficient USDC balance")

\* the balance read was one minor unit short and the call has returned
C6_Witness ==
    /\ tpc = "returned"
    /\ Bound(tl, "balance_wei")
    /\ tl.balance_wei = tl.amount_wei - 1

\* C7: a native balance of zero ends the call with the insufficient-gas-funds
\* error before anything is signed or sent; any non-zero native balance passes.
C7_InsufficientGasFunds ==
    Bound(tl, "eth_balance") =>
        IF tl.eth_balance = 0
        THEN /\ Returned
             /\ result = [success |-> FALSE, error |-> "Insufficient ETH for gas fees",
                          network |-> tin.network]
             /\ ops \cap {"sign_transaction", "send_raw_transaction"} = {}
             /\ sent = <<>>
        ELSE /\ tpc # "eth_balance"
             /\ Returned => (result.success \/ result.error # "Insufficient ETH for gas fees")

\* the native balance read was zero, with enough tokens, and the call has returned
C7_Witness ==
    /\ tpc = "returned"
    /\ Bound(tl, "eth_balance")
    /\ tl.eth_balance = 0
    /\ tl.balance_wei >= tl.amount_wei

\* the recipient of the call is left to the last rule of the resolver: it is
\* no contact name, no address text and no name-service handle
FuzzyToken ==
    /\ tin # None
    /\ tin.network \in NETWORKS
    /\ tin.to_raw \notin DOMAIN TransferBook
    /\ ~IsAddress(tin.to_raw)
    /\ ~EndsWith(Lower(tin.to_raw), EthSuffix)

\* the contact names that contain the recipient, case ignored
FuzzyMatches == {n \in DOMAIN TransferBook : Contains(Lower(n), Lower(tin.to_raw))}

\* C14: for a recipient left to the fuzzy rule, resolution succeeds iff exactly
\* one contact name contains it case-insensitively, and then yields that
\* contact's address and name; with no match or several it fails and the
\* transfer returns the error.
C14_FuzzyUniqueMatch ==
    (FuzzyToken /\ tpc # "resolve")
        => IF Cardinality(FuzzyMatches) = 1
           THEN /\ Bound(tl, "to_address")
                /\ \A n \in FuzzyMatches :
                      tl.to_address = TransferBook[n] /\ tl.display_name = n
           ELSE /\ ~Bound(tl, "to_address")
                /\ Returned
                /\ ~result.success
                /\ result.error = IF FuzzyMatches = {} THEN "UnknownRecipient"
                                  ELSE "AmbiguousRecipient"

\* a recipient matching one contact only was resolved to that contact
C14_Witness ==
    /\ FuzzyToken
    /\ Cardinality(FuzzyMatches) = 1
    /\ Bound(tl, "to_address")
    /\ tl.display_name \in FuzzyMatches
    /\ tl.display_name # tin.to_raw

\* the recipient of the call is a contact name or an address text
KnownRecipient ==
    /\ tin # None
    /\ tin.network \in NETWORKS
    /\ (tin.to_raw \in DOMAIN TransferBook \/ IsAddress(tin.to_raw))

\* the address such a recipient stands for
CanonicalRecipient ==
    IF tin.to_raw \in DOMAIN TransferBook THEN TransferBook[tin.to_raw]
    ELSE ToChecksum(tin.to_raw)

\* C15: a recipient given as a contact name or as an address text passes the
\* resolution step (the transfer never returns a resolution error for it), and
\* a transaction that is broadcast for it is addressed to the contact's stored
\* address, or to the checksummed form of the address text.
C15_BroadcastToResolved ==
    KnownRecipient
        => /\ (tpc # "resolve")
                => (Bound(tl, "to_address") /\ tl.to_address = CanonicalRecipient)
           /\ \A i \in 1..Len(sent) : sent[i].raw.to = CanonicalRecipient

\* a transfer to an address typed in lower case was broadcast to its checksummed form
C15_Witness ==
    /\ KnownRecipient
    /\ IsAddress(tin.to_raw)
    /\ tin.to_raw # ToChecksum(tin.to_raw)
    /\ Len(sent) = 1
    /\ sent[1].raw.to = ToChecksum(tin.to_raw)
    /\ tl.balance_wei >= tl.amount_wei

\* C20: the amount in minor units is the amount the caller wrote times
\* 10^decimals, exactly, whenever the amount has no more fractional digits
\* than the token has decimals; 20.0 with 6 decimals gives 20000000.
C20_ExactMinorUnits ==
    (Bound(tl, "amount_wei") /\ tin.amount_text.e <= tl.decimals)
        => tl.amount_wei = tin.amount_text.m * Pow10(tl.decimals - tin.amount_text.e)

\* C21: the gas limit of the built transaction is 1.2 times the gas estimate,
\* rounded up to the next integer.
C21_GasLimitRoundedUp ==
    Bound(tl, "transaction")
        => /\ 10 * tl.transaction.gas >= 12 * tl.gas_estimate
           /\ 10 * (tl.transaction.gas - 1) < 12 * tl.gas_estimate

\* C22: the exit code of the command is 0 exactly when the transfer succeeded
\* and 1 when the result reports an error, with --json as without.
C22_ExitCodeTellsSuccess ==
    (tpc = "exited")
        => /\ result.success => exit_code = Some(0)
           /\ ~result.success => exit_code = Some(1)

\* the errors with which recipient resolution fails
ResolutionErrors == {"UnknownRecipient", "AmbiguousRecipient", "NameServiceFailure"}

\* C35: when recipient resolution fails, transfer_usdc returns the error
\* without having touched the chain: no connection, no wallet, no balance,
\* nonce or gas query, nothing built, signed or broadcast.
C35_ResolutionFailureTouchesNothing ==
    (Returned /\ ~result.success /\ result.error \in ResolutionErrors)
        => /\ ops = {}
           /\ sent = <<>>
           /\ tl = <<>>

\* a call with a key and a known network ended on a recipient nobody knows
C35_Witness ==
    /\ Returned
    /\ ~result.success
    /\ result.error = "UnknownRecipient"
    /\ tin.private_key # None
    /\ tin.network \in NETWORKS
    /\ ops = {}

\* C36: a gas price given by the caller, 0 included, is the gas price of the
\* built transaction and no live quote is asked for; the live quote is used
\* only when no gas price was given.
C36_OverrideTakesPrecedence ==
    Bound(tl, "transaction")
        => IF tin.gas_price_gwei # None
           THEN /\ tl.transaction.gasPrice = ToWeiGwei(tin.gas_price_gwei.some)
                /\ "gas_price" \notin ops
           ELSE "gas_price" \in ops

\* C37: two runs of the transfer pipeline that are under way at the same time for
\* one sender never hold signed transactions with the same nonce.
C37_ConcurrentRunsSignDistinctNonces ==
    \A i \in Pipelines : \A j \in Pipelines :
        (/\ i # j
         /\ pipelines[i].pc \in {"send", "wait"}
         /\ pipelines[j].pc \in {"send", "wait"})
            => pipelines[i].signed_txn.some.nonce # pipelines[j].signed_txn.some.nonce

(***************************************************************************)
(* Properties of monitor_incoming, checked under SpecMonitor               *)
(***************************************************************************)
\* the number of console notifications for a transaction hash
Notifications(tx) == Cardinality({i \in 1..Len(printed) : printed[i].tx_hash = tx})

InAnswer(l, q) == \E k \in 1..Len(queries[q].logs) : queries[q].logs[k] = l

\* C2: a log that the log query returned on two different ticks has exactly one
\* notification once the later of the two batches is through.
C2_ExactlyOneNotification ==
    \A q \in 1..Len(queries) : \A p \in 1..(q - 1) :
        queries[q].completed =>
            \A k \in 1..Len(queries[q].logs) :
                InAnswer(queries[q].logs[k], p) =>
                    Notifications(queries[q].logs[k].transactionHash) = 1

\* C3: last_block moves to current_block only when the whole batch is through;
\* until then, and after a tick that failed, it still is the block before the
\* batch's fromBlock, and the query after a failed one starts at the same fromBlock.
C3_CursorMovesAfterBatch ==
    /\ \A i \in 1..(Len(queries) - 1) :
          queries[i + 1].fromBlock =
             IF queries[i].completed THEN queries[i].toBlock + 1 ELSE queries[i].fromBlock
    /\ queries # <<>> =>
          LET q == queries[Len(queries)]
          IN /\ last_block = IF q.completed THEN q.toBlock ELSE q.fromBlock - 1
             /\ q.completed =>
                  \A k \in 1..Len(q.logs) : q.logs[k].transactionHash \in seen_txs

\* a tick failed in the middle of its batch and a later tick has queried again
C3_Witness ==
    \E i \in 1..(Len(queries) - 1) :
        /\ ~queries[i].completed
        /\ queries[i].logs # <<>>
        /\ queries[i + 1].fromBlock = queries[i].fromBlock

\* the positions inside the while loop
InLoop == {"tick", "get_logs", "for", "decode", "print", "write", "sleep", "except"}

ScanWindowStart ==
    IF queries = <<>> THEN last_block + 1 ELSE queries[Len(queries)].fromBlock

\* C18: seen_txs holds no hash older than the scan window: every hash in it
\* belongs to a log of a block inside the range scanned last, so its size is
\* bounded by the number of logs of one window.
C18_SeenTxsWithinWindow ==
    \A tx \in seen_txs :
        \E i \in 1..Len(chain) :
            chain[i].transactionHash = tx /\ chain[i].blockNumber >= ScanWindowStart

\* C19: Ctrl+C stops the loop between two ticks only (during a sleep or before
\* the head is read), never while a batch is processed or a call is under
\* way, and when the loop stops every hash in seen_txs has been notified.
C19_CooperativeCancellation ==
    [][(mpc \in InLoop /\ mpc' \in {"stopped", "uncaught"})
          => /\ mpc \in {"sleep", "except", "tick"}
             /\ \A tx \in seen_txs : Notifications(tx) >= 1]_vars

\* the number of records of the output file for a transaction hash
Records(tx) == Cardinality({i \in 1..Len(outfile) : outfile[i].tx_hash = tx})

\* C33: no incoming transfer is lost: once the batch of a tick is through
\* and the cursor has moved past its blocks, every log the query returned has
\* its notification on the console, and its record in the output file when
\* there is one, also when an earlier tick over the same blocks broke off.
C33_NoTransferLost ==
    \A q \in 1..Len(queries) :
        queries[q].completed =>
            \A k \in 1..Len(queries[q].logs) :
                /\ Notifications(queries[q].logs[k].transactionHash) >= 1
                /\ margs.output_file # None =>
                      Records(queries[q].logs[k].transactionHash) >= 1

\* C34: last_block never decreases; a log query is issued only when
\* current_block > last_block and asks for last_block+1 .. current_block; the
\* cursor moves only at the end of a batch, from the block before the batch's
\* range to its last block, so the ranges of the completed ticks follow each
\* other without gap or overlap from the starting head to last_block.
C34_CursorInvariant ==
    [][/\ last_block' >= last_block
       /\ Len(queries') > Len(queries) =>
             /\ current_block > last_block
             /\ queries'[Len(queries')].fromBlock = last_block + 1
             /\ queries'[Len(queries')].toBlock = current_block
             /\ ~queries'[Len(queries')].completed
             /\ last_block' = last_block
       /\ (mpc # "idle" /\ last_block' # last_block) =>
             /\ queries # <<>>
             /\ ~queries[Len(queries)].completed
             /\ queries[Len(queries)].fromBlock = last_block + 1
             /\ queries[Len(queries)].toBlock = last_block'
             /\ queries'[Len(queries)].completed
       /\ \A i \in 1..Len(queries) :
             (queries'[i].completed /\ ~queries[i].completed) =>
                 (i = Len(queries) /\ last_block' = queries[i].toBlock)]_vars

\* two ticks were completed one after the other and then the RPC reported a
\* block number below last_block
C34_Witness ==
    /\ mpc = "sleep"
    /\ current_block < last_block
    /\ \E p \in 1..Len(queries) : \E q \in 1..Len(queries) :
          /\ p < q
          /\ queries[p].completed /\ queries[q].completed
          /\ queries[q].fromBlock = queries[p].toBlock + 1
          /\ queries[q].toBlock = last_block

(***************************************************************************)
(* Properties of get_history, checked under SpecHistory                    *)
(***************************************************************************)
HistoryDone == hpc = "returned" /\ hresult.success

\* how many entries of a sequence of logs or history entries lie in block b or above
LogsFromBlock(ls, b) == Cardinality({i \in 1..Len(ls) : ls[i].blockNumber >= b})
EntriesFromBlock(txs, b) == Cardinality({i \in 1..Len(txs) : txs[i].block >= b})
Min(a, b) == IF a <= b THEN a ELSE b

\* C8: the entries returned are the `limit` matching logs with the highest block
\* numbers: down to any block b the result holds as many entries as the matching
\* logs have there, up to limit.
C8_LimitKeepsHighestBlocks ==
    HistoryDone =>
        \A b \in 0..HistoryMaxHead :
            EntriesFromBlock(hresult.transactions, b) =
                Min(hin.limit, LogsFromBlock(hl.all_logs, b))

SelfTransfer(l) == l.topic1 = hl.address_topic /\ l.topic2 = hl.address_topic

\* C9: a transfer of the address to itself, which both log queries return, gives
\* (when the limit leaves room for every log) one entry with direction in and one
\* with direction out for its transaction hash.
C9_SelfTransferInAndOut ==
    (HistoryDone /\ Len(hl.all_logs) <= hin.limit) =>
        \A i \in 1..Len(hl.logs_from) : \A j \in 1..Len(hl.logs_to) :
            (hl.logs_from[i] = hl.logs_to[j] /\ SelfTransfer(hl.logs_from[i])) =>
                /\ \E k \in 1..Len(hresult.transactions) :
                     /\ hresult.transactions[k].hash = hl.logs_from[i].transactionHash
                     /\ hresult.transactions[k].direction = "in"
                /\ \E k \in 1..Len(hresult.transactions) :
                     /\ hresult.transactions[k].hash = hl.logs_from[i].transactionHash
                     /\ hresult.transactions[k].direction = "out"

\* C10: the list returned is non-increasing in block number from its first entry
\* to its last.
C10_NonIncreasingBlocks ==
    HistoryDone =>
        \A i \in 1..Len(hresult.transactions) : \A j \in 1..Len(hresult.transactions) :
            i < j => hresult.transactions[i].block >= hresult.transactions[j].block

\* a history of at least two entries of different blocks, of which the log
\* queries returned the older one first
C10_Witness ==
    /\ HistoryDone
    /\ Len(hresult.transactions) >= 2
    /\ hresult.transactions[1].block > hresult.transactions[Len(hresult.transactions)].block
    /\ hl.all_logs[1].blockNumber < hl.all_logs[Len(hl.all_logs)].blockNumber

\* C31: one call of get_history asks for the metadata of a block at most once,
\* also when several of the returned events lie in that block.
C31_OneLookupPerBlock ==
    \A i \in 1..Len(hcalls) : \A j \in 1..Len(hcalls) :
        i # j => hcalls[i] # hcalls[j]

\* the history entry was made from the log
EntryOfLog(tx, l) ==
    /\ tx.hash = l.transactionHash
    /\ tx.block = l.blockNumber
    /\ Topic(tx.from) = l.topic1
    /\ Topic(tx.to) = l.topic2

\* C32: two entries of the result that lie in the same block stand in the order
\* in which their logs were emitted in that block, whichever of the two log
\* queries returned them.
C32_EmissionOrderWithinBlock ==
    HistoryDone =>
        \A i \in 1..Len(hresult.transactions) : \A j \in 1..Len(hresult.transactions) :
            (i < j /\ hresult.transactions[i].block = hresult.transactions[j].block) =>
                \E p \in 1..Len(chain) : \E q \in 1..Len(chain) :
                    /\ p <= q
                    /\ EntryOfLog(hresult.transactions[i], chain[p])
                    /\ EntryOfLog(hresult.transactions[j], chain[q])

\* C39: every entry returned lies in a block of the range reported as
\* blocks_scanned, from max(0, head - HistoryWindow) to the head read at the
\* start of the call, and the lower end of the range is not negative.
C39_EntriesWithinBlocksScanned ==
    HistoryDone =>
        /\ hresult.blocks_scanned[1] >= 0
        /\ \A i \in 1..Len(hresult.transactions) :
              /\ hresult.blocks_scanned[1] <= hresult.transactions[i].block
              /\ hresult.transactions[i].block <= hresult.blocks_scanned[2]

(***************************************************************************)
(* Properties of the contact stores, checked under SpecPhoneBook and       *)
(* SpecContactsManager                                                     *)
(***************************************************************************)
\* the last store call was get
GetCall == creturn # None /\ creturn.op = "get"

\* name -> address of the store the last call was made on
Book ==
    IF creturn.store = "PhoneBook"
    THEN [n \in DOMAIN phonebook[creturn.self].some |-> phonebook[creturn.self].some[n].address]
    ELSE contacts.some

\* C11: a token that is both a stored contact name and a valid address text
\* resolves to the address stored for the contact, not to the token's own
\* address: the exact name match comes before the address reading.
C11_ContactBeforeAddress ==
    (GetCall /\ creturn.name \in DOMAIN Book /\ IsAddress(creturn.name))
        => (~creturn.raised /\ creturn.value = Book[creturn.name])

\* get was called with an address text that names a contact stored with another address
C11_Witness ==
    /\ GetCall
    /\ creturn.name \in DOMAIN Book
    /\ IsAddress(creturn.name)
    /\ Book[creturn.name] # ToChecksum(creturn.name)
    /\ ~creturn.raised
    /\ creturn.value = Book[creturn.name]

\* C12: names are matched exactly, case included: a token that is not a stored
\* name and not a valid address makes get raise KeyError, so with Bob stored
\* and bOB not stored, get("bOB") fails instead of answering Bob's address.
C12_UnknownNameFails ==
    (GetCall /\ creturn.name \notin DOMAIN Book /\ ~IsAddress(creturn.name))
        => (creturn.raised /\ creturn.error = "KeyError")

\* get("bOB") raised while Bob was stored and bOB was not
C12_Witness ==
    /\ GetCall
    /\ creturn.name = bOB
    /\ Bob \in DOMAIN Book
    /\ bOB \notin DOMAIN Book
    /\ creturn.raised

\* C13: a token that is a valid address text and not a stored name resolves to
\* that same address in checksummed form, whatever the book holds.
C13_RawAddressPassthrough ==
    (GetCall /\ creturn.name \notin DOMAIN Book /\ IsAddress(creturn.name))
        => /\ ~creturn.raised
           /\ creturn.value = ToChecksum(creturn.name)
           /\ Lower(Remove0x(creturn.value)) = Lower(Remove0x(creturn.name))

\* get answered an address typed in lower case, against a book that is not empty
C13_Witness ==
    /\ GetCall
    /\ creturn.name \notin DOMAIN Book
    /\ IsAddress(creturn.name)
    /\ creturn.name # ToChecksum(creturn.name)
    /\ DOMAIN Book # {}
    /\ ~creturn.raised
    /\ creturn.value = ToChecksum(creturn.name)

\* the step is a call of op on a PhoneBook
PhoneBookCall(op) ==
    creturn' # None /\ creturn'.store = "PhoneBook" /\ creturn'.op = op

\* C23: an add that succeeds stores under the name a record made of the new
\* address (checksummed), chain, time and origin, whatever the name had before,
\* and leaves every other contact as it was.
C23_AddOverwritesWholesale ==
    [][(PhoneBookCall("add") /\ ~creturn'.raised)
        => LET old == phonebook[creturn'.self].some
               new == phonebook'[creturn'.self].some
           IN /\ DOMAIN new = DOMAIN old \cup {creturn'.name}
              /\ new[creturn'.name] = [address |-> ToChecksum(creturn'.address),
                                       chain |-> creturn'.chain,
                                       addedAt |-> creturn'.utcnow,
                                       addedVia |-> creturn'.via]
              /\ \A n \in DOMAIN old \ {creturn'.name} : new[n] = old[n]]_vars

\* an add replaced a record that differed in address, chain, time and origin,
\* next to another contact
C23_Witness ==
    /\ creturn # None /\ creturn.store = "PhoneBook" /\ creturn.op = "add"
    /\ ~creturn.raised
    /\ creturn.before # None
    /\ creturn.before.some.address # ToChecksum(creturn.address)
    /\ creturn.before.some.chain # creturn.chain
    /\ creturn.before.some.addedAt # creturn.utcnow
    /\ creturn.before.some.addedVia # creturn.via
    /\ phonebook[creturn.self].some[creturn.name].addedAt = creturn.utcnow
    /\ DOMAIN phonebook[creturn.self].some # {creturn.name}

\* C24: an add whose address is not a valid address raises ValueError and
\* changes neither the mapping in memory nor the file.
C24_InvalidAddressRejected ==
    [][(creturn' # None /\ creturn'.op = "add" /\ ~IsAddress(creturn'.address))
        => /\ creturn'.raised
           /\ creturn'.error = "ValueError"
           /\ UNCHANGED <<phonebook, phonebook_file, contacts, contacts_file>>]_vars

\* an add with a wrongly checksummed address was refused on a book that holds contacts
C24_Witness ==
    /\ creturn # None /\ creturn.store = "PhoneBook" /\ creturn.op = "add"
    /\ creturn.raised
    /\ creturn.address = BadChecksum
    /\ DOMAIN phonebook[creturn.self].some # {}
    /\ phonebook_file = Some(phonebook[creturn.self].some)

\* C25: right after add(name, address) succeeds get(name) answers the
\* checksummed form of that address, and the answer of get for a stored name
\* is not changed by any call other than an add or a remove of that name.
C25_AddGetRoundTrip ==
    [][(creturn' # None /\ creturn'.store = "PhoneBook" /\ creturn'.op # "__init__")
        => LET old == phonebook[creturn'.self].some
               new == phonebook'[creturn'.self].some
           IN /\ (creturn'.op = "add" /\ ~creturn'.raised)
                    => LET got == PhoneBook_get(new, creturn'.name)
                       IN ~got.raised /\ got.value = ToChecksum(creturn'.address)
              /\ \A n \in DOMAIN old :
                    (creturn'.op \in {"add", "remove"} /\ creturn'.name = n)
                    \/ PhoneBook_get(new, n) = PhoneBook_get(old, n)]_vars

\* get answered the checksummed address of a contact added in lower case,
\* after a later add of another name
C25_Witness ==
    /\ GetCall /\ creturn.store = "PhoneBook"
    /\ ~creturn.raised
    /\ creturn.name \in DOMAIN phonebook[creturn.self].some
    /\ creturn.value = phonebook[creturn.self].some[creturn.name].address
    /\ creturn.value = ToChecksum(creturn.value)
    /\ creturn.value # Lower(creturn.value)
    /\ \E n \in DOMAIN phonebook[creturn.self].some :
          /\ n # creturn.name
          /\ phonebook[creturn.self].some[n].addedAt
               > phonebook[creturn.self].some[creturn.name].addedAt

\* C26: remove(name) of a stored name returns True and deletes that contact
\* and no other, so that get(name) fails unless the name is a valid address;
\* remove of a name that is not stored returns False and changes neither the
\* mapping nor the file.
C26_RemoveExactlyThatContact ==
    [][PhoneBookCall("remove")
        => LET old == phonebook[creturn'.self].some
               new == phonebook'[creturn'.self].some
               name == creturn'.name
           IN IF name \in DOMAIN old
              THEN /\ creturn'.value = TRUE
                   /\ DOMAIN new = DOMAIN old \ {name}
                   /\ \A n \in DOMAIN new : new[n] = old[n]
                   /\ Cardinality(DOMAIN new) = Cardinality(DOMAIN old) - 1
                   /\ IF IsAddress(name)
                      THEN PhoneBook_get(new, name).value = ToChecksum(name)
                      ELSE PhoneBook_get(new, name).raised
              ELSE /\ creturn'.value = FALSE
                   /\ UNCHANGED <<phonebook, phonebook_file>>]_vars

\* a remove returned True and other contacts are still stored
C26_Witness ==
    /\ creturn # None /\ creturn.store = "PhoneBook" /\ creturn.op = "remove"
    /\ creturn.value = TRUE
    /\ creturn.name \notin DOMAIN phonebook[creturn.self].some
    /\ DOMAIN phonebook[creturn.self].some # {}
    /\ phonebook_file = Some(phonebook[creturn.self].some)

\* C27: after every add or remove that succeeded, the file holds the mapping
\* the instance has in memory, which is what an instance constructed from the
\* file then loads.
C27_FileIsSourceOfTruth ==
    (/\ creturn # None /\ creturn.store = "PhoneBook"
     /\ creturn.op \in {"add", "remove"}
     /\ ~creturn.raised
     /\ creturn.op = "remove" => creturn.value)
        => Load(phonebook_file) = phonebook[creturn.self].some

(***************************************************************************)
(* Properties of the identity codes                                        *)
(***************************************************************************)
ReadCall == creturn # None /\ creturn.store = "agent-qr-read"

\* the URI is the scheme, then 0x and exactly AddrHexLen hex digits, then
\* nothing or "?" and parameters
WellFormedUri(uri) ==
    LET n == Len(Scheme) + 2 + AddrHexLen
    IN /\ Len(uri) >= n
       /\ SubSeq(uri, 1, Len(Scheme)) = Scheme
       /\ IsHexAddress(SubSeq(uri, Len(Scheme) + 1, n))
       /\ HasPrefix0x(SubSeq(uri, Len(Scheme) + 1, n))
       /\ (Len(uri) = n \/ uri[n + 1] = "?")

\* C28: a URI with another scheme, or whose address part is not exactly 0x
\* and AddrHexLen hex digits, is rejected as a whole: the command ends with
\* status 1, extracts no address and writes no contact.
C28_MalformedUriRejected ==
    [][(creturn' # None /\ creturn'.store = "agent-qr-read"
        /\ ~WellFormedUri(creturn'.name))
        => /\ creturn'.value = 1
           /\ ~Bound(creturn', "info")
           /\ UNCHANGED phonebook_file]_vars

\* C29: reading the code that generate_qr(address, name, chain) wrote gives
\* back the address (up to case), the name and the chain, for every valid
\* address, display name and chain.
C29_UriRoundTrip ==
    (ReadCall /\ qr # None /\ creturn.name = qr.some.uri /\ IsAddress(qr.some.address))
        => /\ creturn.value = 0
           /\ Lower(creturn.info.address) = Lower(qr.some.address)
           /\ creturn.info.name = qr.some.display_name
           /\ creturn.info.chain = qr.some.chain

\* C38: with two store instances on one file, a contact that is in the file
\* is still in the file after an add or a remove of another name made through
\* either instance, whenever that instance loaded the file.
C38_OtherStoreKeepsContact ==
    [][(PhoneBookCall("add") \/ PhoneBookCall("remove"))
        => \A n \in DOMAIN Load(phonebook_file) :
              n # JsonKey(creturn'.name) => n \in DOMAIN Load(phonebook_file')]_vars

====
